---- MODULE Spec2Model ----
(***************************************************************************)
(* Verification model of gh_summary_bot: the GraphQL transport with its    *)
(* rate-limit handling (github_source.GraphQLClient and                    *)
(* gh_gql_client.GitHubGraphQLClient), the cursor pager, the pull-request   *)
(* line calculation and the per-repository commit walk.                    *)
(*                                                                         *)
(* Optional values are sequences of length 0 (None / absent) or 1.         *)
(* HTTP header maps and JSON objects are functions over their keys.        *)
(***************************************************************************)
EXTENDS Integers, Sequences, FiniteSets, TLC

VARIABLES
    impl,        \* which client class the transport is an instance of
    session,     \* the client's aiohttp session: "none", "open", "closed"
    rate_limit,  \* Optional RateLimit / RateLimitInfo stored on the client
    now,         \* wall clock, seconds
    tpc,         \* position of the running query() call
    rlAtStart,   \* rate_limit as read when the call started
    startedAt,   \* clock when the call started
    slept,       \* Optional duration of the asyncio.sleep of this call
    wakeAt,      \* clock at which the sleep of this call ends
    posts,       \* HTTP POSTs issued by this call
    sentAt,      \* Optional clock at which the POST was issued
    resp,        \* Optional response received for the POST
    outcome,     \* Optional result of the call (data or raised error)
    prevFail,    \* Optional (cause, class) of the previous failed call
    nwStatus,    \* Optional RateLimit on which needs_wait was last called
    nwThreshold, \* Optional threshold argument of that call (None: default)
    nwAnswer,    \* Optional result of that call
    nwPrev,      \* Optional (remaining, threshold, answer) of the call before
    pgPages,     \* the pages the server returns, in order
    pgNested,    \* the collection lies below the top level of the data
    max_pages,   \* Optional page cap given to paginated_query
    pgPc,        \* position of paginated_query
    has_next_page,
    cursor,      \* Optional cursor kept by paginated_query
    page_count,
    pgAfter,     \* Optional variables["after"]
    pgRequests,  \* the cursor each request carried, in order
    pgBatches,   \* the pages yielded to the caller, in order
    prPages,     \* the user's merged pull requests on the server, by page
    lnYear,      \* the year argument of the line calculation
    lnPc,        \* position of _calculate_lines_from_prs
    total_added,
    total_deleted,
    pr_count,
    pr_cursor,   \* Optional cursor kept by the pull-request loop
    prRequests,  \* the cursor each pull-request query carried, in order
    line_stats,  \* Optional LineStats returned by calculate_line_stats
    prRaised,    \* a pull-request query raised
    lnCalls,     \* the strategies the line calculation has invoked, in order
    progPc,      \* position of ProgressiveGitHubSource.contributions
    base_stats,  \* Optional snapshot returned by the wrapped contributions()
    progress,    \* the messages given to the progress reporter, in order
    stats,       \* Optional snapshot returned by ProgressiveGitHubSource
    repos,       \* the commit histories on the server, one per contributed repository
    cmPc,        \* position of GitHubContributionSource.commits
    repo_index,  \* the repository the loop of commits() is at
    commit_cursor, \* Optional cursor kept by _fetch_repo_commits
    commits,     \* the list _fetch_repo_commits is building
    all_commits, \* the list commits() is building
    cmResult,    \* Optional list returned by commits()
    cmFailed,    \* the repositories whose history query raised
    cmWalked,    \* the repositories whose history was queried, in order
    cmRequests,  \* the history requests made so far: <<repository, cursor sent>>
    reports,     \* table contribution_reports: (username, year) -> row
    stImpl,      \* the class that reads and writes the table
    storeCalls,  \* the store() calls made so far: argument, table before, outcome
    aggPc,       \* position of aggregated() / get_all_time_stats()
    aggUser,     \* the username argument of that call
    cumulative_result, \* Optional row of the cumulative query
    snapshot_result,   \* Optional row of the latest-year query
    alltime_stats,     \* Optional result of the call (value or raised error)
    command,     \* the command GitHubBotCommands is handling: "none", "analyze", "alltime"
    argUser,     \* its username argument
    botPc,       \* position of the command
    existing_years,  \* alltime_command: the years storage reported
    missing_years,   \* alltime_command: the years to analyze
    year_i,      \* alltime_command: index of the loop in missing_years
    attempts,    \* the fetches made for the command: year, answer, outcome
    successful_analyses,
    telegram_users,  \* table telegram_users: the (telegram_id, github_username) pairs
    reply,       \* Optional text the command returned
    anPc,        \* position of GitHubAnalyzer.get_user_contributions
    anYear,      \* its year argument
    anDb,        \* a db_manager was given to it
    pr_cache,    \* table user_pull_requests: the cached pull requests of the user
    github_prs,  \* the pull requests GitHub lists for the user when asked now
    use_commit_data,
    anCommits,   \* the commits fetch_all_commits_for_year returned
    all_prs,     \* the pull requests of the fallback
    anAdded,     \* lines_added of get_user_contributions
    anDeleted,   \* lines_deleted of get_user_contributions
    anRaisedAt,  \* the step of get_user_contributions that raised, "" if none did
    anResult,    \* Optional result of get_user_contributions
    progress_callback, \* Optional callback handed to get_user_contributions
    sqPc,        \* the walking coroutine: "ready", or "awaiting" a query() call
    inflight,    \* POSTs issued and not yet answered
    sqReads,     \* the status each query() call read before its POST, in order
    sqResponses, \* the answers received, in order (None: no answer)
    cancelled_at, \* Optional number of backfill attempts made when the caller asked to stop
    breakdown,   \* commitContributionsByRepository of the answer to contributions()
    fetchResult, \* Optional outcome of GitHubContributionSource.contributions
    opPc,        \* each operation sharing the client: "idle", "entered", "awaiting", "raised", "left"
    client_session,  \* GraphQLClient._session: 0 for None, else the session it refers to
    sessions_opened, \* number of aiohttp sessions created so far (they are 1..sessions_opened)
    sessions_closed, \* the sessions close() was awaited on
    opIssued     \* the query() calls made, in order: who, on which session, closed or not

tvars == <<impl, session, rate_limit, now, tpc, rlAtStart, startedAt, slept,
           wakeAt, posts, sentAt, resp, outcome, prevFail>>

nvars == <<nwStatus, nwThreshold, nwAnswer, nwPrev>>

pvars == <<pgPages, pgNested, max_pages, pgPc, has_next_page, cursor, page_count,
           pgAfter, pgRequests, pgBatches>>

lvars == <<prPages, lnYear, lnPc, total_added, total_deleted, pr_count, pr_cursor,
           prRequests, line_stats, prRaised, lnCalls, progPc, base_stats, progress,
           stats>>

cvars == <<repos, cmPc, repo_index, commit_cursor, commits, all_commits, cmResult,
           cmFailed, cmWalked, cmRequests>>

svars == <<reports, stImpl, storeCalls, aggPc, aggUser, cumulative_result,
           snapshot_result, alltime_stats>>

bvars == <<command, argUser, botPc, existing_years, missing_years, year_i, attempts,
           successful_analyses, telegram_users, reply>>

avars == <<anPc, anYear, anDb, github_prs, pr_cache, use_commit_data, anCommits, all_prs, anAdded,
           anDeleted, anRaisedAt, anResult, progress_callback>>

qvars == <<sqPc, inflight, sqReads, sqResponses>>

kvars == <<cancelled_at>>

gvars == <<breakdown, fetchResult>>

hvars == <<opPc, client_session, sessions_opened, sessions_closed, opIssued>>

xvars == <<svars, bvars, avars, qvars, kvars, gvars, hvars>>

vars == <<tvars, nvars, pvars, lvars, cvars, xvars>>

\* what the operations of the transport leave alone
nonTransport == <<nvars, pvars, lvars, cvars, xvars>>

None == <<>>
Some(v) == <<v>>

(***************************************************************************)
(* Program constants and bounds                                            *)
(***************************************************************************)
min_remaining_threshold == 100
safety_buffer == 10

MaxNow == 30
TickStep == 15
MaxPages == 3
MaxPageCap == 2
MaxPrPages == 2
MaxPrPerPage == 2
MaxRepos == 2
MaxCommitPages == 2
MaxCommitsPerPage == 1
YearSpan == 3
MaxStoreCalls == 2
MaxAnCommits == 2
MaxAnPrs == 2
MaxBreakdown == 3
MaxRequests == 5

Max(a, b) == IF a >= b THEN a ELSE b

(***************************************************************************)
(* Responses of the server                                                 *)
(***************************************************************************)
HLimit == "x-ratelimit-limit"
HRemaining == "x-ratelimit-remaining"
HReset == "x-ratelimit-reset"
HUsed == "x-ratelimit-used"
HResource == "x-ratelimit-resource"

QuotaKeys == {HLimit, HRemaining, HReset, HUsed}

NoHeaders == [k \in {} |-> ""]

QuotaHeaders(limit, remaining, reset, used) ==
    (HLimit :> limit) @@ (HRemaining :> remaining) @@ (HReset :> reset) @@ (HUsed :> used)

HeadersAtThreshold == QuotaHeaders("5000", "100", "20", "7")
HeadersBelowThreshold == QuotaHeaders("5000", "99", "20", "7")
HeadersExhausted == QuotaHeaders("5000", "0", "20", "5000")

HeaderSet ==
    { NoHeaders,
      HeadersAtThreshold,
      HeadersBelowThreshold,
      HeadersExhausted,
      (HReset :> "20") @@ (HUsed :> "7"),
      (HResource :> "graphql"),
      HeadersBelowThreshold @@ (HResource :> "graphql") }

\* int(): the decimal strings the servers of this model send
DecimalValue ==
    ("0" :> 0) @@ ("7" :> 7) @@ ("20" :> 20) @@ ("99" :> 99) @@ ("100" :> 100)
        @@ ("5000" :> 5000)

\* a JSON error object is an Optional message; a JSON body object has an
\* Optional errors array and an Optional data member
JsonBody(errors, data) == [errors |-> errors, data |-> data]

DataBody == [text |-> "{data}", json |-> Some(JsonBody(None, Some("D")))]

BodySet ==
    { [text |-> "<html>", json |-> None],
      DataBody,
      [text |-> "{}", json |-> Some(JsonBody(None, None))],
      [text |-> "{errors:[]}", json |-> Some(JsonBody(Some(<<>>), None))],
      [text |-> "{errors:[m1],data}",
       json |-> Some(JsonBody(Some(<<Some("bad field")>>), Some("D")))],
      [text |-> "{errors:[m1,?]}",
       json |-> Some(JsonBody(Some(<<Some("bad field"), None>>), None))] }

StatusSet == {200, 401, 403, 500}

\* every status with every body, and every header map on a plain success
Responses ==
    [status : StatusSet, headers : {NoHeaders, HeadersBelowThreshold}, body : BodySet]
    \cup [status : {200}, headers : HeaderSet, body : {DataBody}]

(***************************************************************************)
(* RateLimit                                                               *)
(***************************************************************************)
\* headers.get(key, 0) followed by int(): Optional integer, None on ValueError
HeaderInt(headers, key) ==
    IF key \notin DOMAIN headers THEN Some(0)
    ELSE IF headers[key] \in DOMAIN DecimalValue THEN Some(DecimalValue[headers[key]])
    ELSE None

RateLimit(limit, remaining, reset_at, used, node_count) ==
    [limit |-> limit, remaining |-> remaining, reset_at |-> reset_at,
     used |-> used, node_count |-> node_count]

seconds_until_reset(rl, clock) == Max(0, rl.reset_at - clock)

needs_wait_le(rl, threshold) == rl.remaining <= threshold

needs_wait(rl, threshold) == rl.remaining < threshold

\* GraphQLClient._extract_rate_limit
_extract_rate_limit(headers) ==
    LET limit == HeaderInt(headers, HLimit)
        remaining == HeaderInt(headers, HRemaining)
        reset == HeaderInt(headers, HReset)
        used == HeaderInt(headers, HUsed)
        resource == HeaderInt(headers, HResource)
    IN  IF limit = None \/ remaining = None THEN None
        ELSE IF limit[1] = 0 /\ remaining[1] = 0 THEN None
        ELSE IF reset = None \/ used = None \/ resource = None THEN None
        ELSE Some(RateLimit(limit[1], remaining[1], reset[1], used[1], resource[1]))

\* RateLimitInfo.from_headers: None stands for the ValueError it raises
from_headers(headers) ==
    LET limit == HeaderInt(headers, HLimit)
        remaining == HeaderInt(headers, HRemaining)
        reset == HeaderInt(headers, HReset)
        used == HeaderInt(headers, HUsed)
        resource == HeaderInt(headers, HResource)
    IN  IF None \in {limit, remaining, reset, used, resource} THEN None
        ELSE Some(RateLimit(limit[1], remaining[1], reset[1], used[1], resource[1]))

\* GitHubGraphQLClient._update_rate_limit_info
_update_rate_limit_info(old, headers) ==
    IF from_headers(headers) = None THEN old ELSE from_headers(headers)

\* the status stored on the client once a response has been received
RateLimitAfter(client, old, headers) ==
    IF client = "GraphQLClient" THEN _extract_rate_limit(headers)
    ELSE _update_rate_limit_info(old, headers)

(***************************************************************************)
(* Response handling                                                       *)
(***************************************************************************)
ErrorClass(client) ==
    IF client = "GraphQLClient" THEN "GitHubAPIError" ELSE "GitHubGraphQLError"

Raise(cls, msg, detail) ==
    [kind |-> "error", cls |-> cls, msg |-> msg, detail |-> detail, data |-> None]

Return(data) ==
    [kind |-> "data", cls |-> "", msg |-> "", detail |-> "", data |-> Some(data)]

\* a call that returned None
ReturnNone == [kind |-> "none", cls |-> "", msg |-> "", detail |-> "", data |-> None]

\* error.get("message", "Unknown error") for error in errors
RECURSIVE error_messages(_)
error_messages(errors) ==
    IF errors = <<>> THEN <<>>
    ELSE <<IF Head(errors) = None THEN "Unknown error" ELSE Head(errors)[1]>>
             \o error_messages(Tail(errors))

\* "; ".join(messages)
RECURSIVE Join(_)
Join(msgs) ==
    IF msgs = <<>> THEN ""
    ELSE IF Len(msgs) = 1 THEN msgs[1]
    ELSE msgs[1] \o "; " \o Join(Tail(msgs))

\* a handler that returns the data member whenever there is one
HandleResponse_partial(client, r) ==
    IF r.status = 401
      THEN Raise(ErrorClass(client), "Authentication failed. Check your token.", "")
    ELSE IF r.status = 403
      THEN Raise(ErrorClass(client), "Forbidden. You may have exceeded rate limits.", "")
    ELSE IF r.status >= 400
      THEN Raise(ErrorClass(client), "HTTP", ToString(r.status) \o ": " \o r.body.text)
    ELSE IF r.body.json = None
      THEN Raise(ErrorClass(client), "Failed to parse JSON response", "")
    ELSE IF r.body.json[1].data # None THEN Return(r.body.json[1].data[1])
    ELSE IF r.body.json[1].errors # None
      THEN Raise(ErrorClass(client), "GraphQL errors",
                 Join(error_messages(r.body.json[1].errors[1])))
    ELSE Return("{}")

\* a handler that reads the body before it looks at the status
HandleResponse_bodyfirst(client, r) ==
    IF r.body.json # None /\ r.body.json[1].errors # None
      THEN Raise(ErrorClass(client), "GraphQL errors",
                 Join(error_messages(r.body.json[1].errors[1])))
    ELSE IF r.body.json # None /\ r.body.json[1].data # None
      THEN Return(r.body.json[1].data[1])
    ELSE IF r.status = 401
      THEN Raise(ErrorClass(client), "Authentication failed. Check your token.", "")
    ELSE IF r.status = 403
      THEN Raise(ErrorClass(client), "Forbidden. You may have exceeded rate limits.", "")
    ELSE IF r.status >= 400
      THEN Raise(ErrorClass(client), "HTTP", ToString(r.status) \o ": " \o r.body.text)
    ELSE IF r.body.json = None
      THEN Raise(ErrorClass(client), "Failed to parse JSON response", "")
    ELSE Return("{}")

\* the part of query() / _make_request() that follows the POST
HandleResponse(client, r) ==
    IF r.status = 401
      THEN Raise(ErrorClass(client), "Authentication failed. Check your token.", "")
    ELSE IF r.status = 403
      THEN Raise(ErrorClass(client), "Forbidden. You may have exceeded rate limits.", "")
    ELSE IF r.status >= 400
      THEN Raise(ErrorClass(client), "HTTP", ToString(r.status) \o ": " \o r.body.text)
    ELSE IF r.body.json = None
      THEN Raise(ErrorClass(client), "Failed to parse JSON response", "")
    ELSE IF r.body.json[1].errors # None
      THEN Raise(ErrorClass(client), "GraphQL errors",
                 Join(error_messages(r.body.json[1].errors[1])))
    ELSE IF r.body.json[1].data = None THEN Return("{}")
    ELSE Return(r.body.json[1].data[1])

\* no response arrived: aiohttp.ClientError out of session.post
HandleNetworkFailure(client) ==
    IF client = "GraphQLClient" THEN Raise("aiohttp.ClientError", "", "")
    ELSE Raise(ErrorClass(client), "Request failed", "")

(***************************************************************************)
(* The dataclasses of models.py                                            *)
(***************************************************************************)
\* the __init__ a dataclass generates: keyword arguments may name declared
\* fields only and must give every field that has no default
dataclass_init(cls, required, defaults, kwargs) ==
    IF ~(DOMAIN kwargs \subseteq (required \cup DOMAIN defaults))
      THEN Raise("TypeError", cls \o ".__init__() got an unexpected keyword argument", "")
    ELSE IF ~(required \subseteq DOMAIN kwargs)
      THEN Raise("TypeError", cls \o ".__init__() missing required argument", "")
    ELSE Return(kwargs @@ defaults)

ContributionStatsRequired ==
    {"username", "date_range", "total_commits", "total_prs", "total_issues",
     "total_discussions", "total_reviews", "repositories_contributed", "languages",
     "starred_repos", "followers", "following", "public_repos",
     "private_contributions", "lines_added", "lines_deleted"}

ContributionStats(kwargs) ==
    dataclass_init("ContributionStats", ContributionStatsRequired,
                   [lines_calculation_method |-> "", created_at |-> "now"], kwargs)

\* DateRange.calendar_year(year)
calendar_year(year) == [start_date |-> <<year, 1, 1>>, end_date |-> <<year, 12, 31>>]

\* the property year of ContributionStats: date_range.start_date.year
ContributionStats_year(obj) == obj.date_range.start_date[1]

AllTimeStatsRequired ==
    {"username", "total_years", "total_commits", "total_prs", "total_issues",
     "total_discussions", "total_reviews", "private_contributions", "lines_added",
     "lines_deleted", "lines_calculation_methods", "first_year", "last_year",
     "repositories_contributed", "starred_repos", "followers", "following",
     "public_repos", "languages", "last_updated"}

AllTimeStats(kwargs) ==
    dataclass_init("AllTimeStats", AllTimeStatsRequired, <<>>, kwargs)

(***************************************************************************)
(* The transport: one query() call at a time                               *)
(***************************************************************************)
TInit ==
    /\ impl \in {"GraphQLClient", "GitHubGraphQLClient"}
    /\ session = "none"
    /\ rate_limit = None
    /\ now = 0
    /\ tpc = "idle"
    /\ rlAtStart = None
    /\ startedAt = 0
    /\ slept = None
    /\ wakeAt = 0
    /\ posts = 0
    /\ sentAt = None
    /\ resp = None
    /\ outcome = None
    /\ prevFail = None

\* the transport of an application that has made no call yet
TIdle == TInit /\ impl = "GraphQLClient"

\* __aenter__
Enter ==
    /\ tpc = "idle"
    /\ session' = IF impl = "GraphQLClient" THEN "open"
                  ELSE IF session = "none" THEN "open" ELSE session
    /\ UNCHANGED <<impl, rate_limit, now, tpc, rlAtStart, startedAt, slept,
                   wakeAt, posts, sentAt, resp, outcome, prevFail>>
    /\ UNCHANGED nonTransport

\* __aexit__
Exit ==
    /\ tpc = "idle"
    /\ session # "none"
    /\ session' = IF impl = "GraphQLClient" THEN "closed" ELSE "none"
    /\ UNCHANGED <<impl, rate_limit, now, tpc, rlAtStart, startedAt, slept,
                   wakeAt, posts, sentAt, resp, outcome, prevFail>>
    /\ UNCHANGED nonTransport

Tick ==
    /\ tpc = "idle"
    /\ now < MaxNow
    /\ now' = now + TickStep
    /\ UNCHANGED <<impl, session, rate_limit, tpc, rlAtStart, startedAt, slept,
                   wakeAt, posts, sentAt, resp, outcome, prevFail>>
    /\ UNCHANGED nonTransport

\* entry of query() / _make_request(): the session test
QueryStart ==
    /\ tpc = "idle"
    /\ now <= MaxNow
    /\ rlAtStart' = rate_limit
    /\ startedAt' = now
    /\ slept' = None
    /\ posts' = 0
    /\ sentAt' = None
    /\ resp' = None
    /\ IF impl = "GraphQLClient" /\ session = "none"
         THEN /\ outcome' = Some(Raise("RuntimeError", "Client not initialized", ""))
              /\ tpc' = "done"
              /\ session' = session
         ELSE /\ outcome' = None
              /\ tpc' = "check"
              /\ session' = IF session = "none" THEN "open" ELSE session
    /\ UNCHANGED <<impl, rate_limit, now, wakeAt, prevFail>>
    /\ UNCHANGED nonTransport

\* _check_rate_limit skipping the sleep
_check_rate_limit_nosleep ==
    /\ tpc = "check"
    /\ tpc' = "post"
    /\ UNCHANGED <<impl, session, rate_limit, now, rlAtStart, startedAt, slept,
                   wakeAt, posts, sentAt, resp, outcome, prevFail>>
    /\ UNCHANGED nonTransport

\* _check_rate_limit up to its await asyncio.sleep(wait_time)
_check_rate_limit ==
    /\ tpc = "check"
    /\ IF rate_limit = None
         THEN /\ tpc' = "post"
              /\ UNCHANGED <<slept, wakeAt>>
         ELSE IF needs_wait(rate_limit[1], min_remaining_threshold)
                   /\ seconds_until_reset(rate_limit[1], now) + safety_buffer > 0
           THEN /\ tpc' = "sleep"
                /\ slept' = Some(seconds_until_reset(rate_limit[1], now) + safety_buffer)
                /\ wakeAt' = now + seconds_until_reset(rate_limit[1], now) + safety_buffer
           ELSE /\ tpc' = "post"
                /\ UNCHANGED <<slept, wakeAt>>
    /\ UNCHANGED <<impl, session, rate_limit, now, rlAtStart, startedAt,
                   posts, sentAt, resp, outcome, prevFail>>
    /\ UNCHANGED nonTransport

\* asyncio.sleep(wait_time) returns
Wake ==
    /\ tpc = "sleep"
    /\ now' = wakeAt
    /\ tpc' = "post"
    /\ UNCHANGED <<impl, session, rate_limit, rlAtStart, startedAt, slept,
                   wakeAt, posts, sentAt, resp, outcome, prevFail>>
    /\ UNCHANGED nonTransport

\* session.post(...): the request leaves and the server (or the network) answers
Post ==
    /\ tpc = "post"
    /\ IF session = "closed"
         THEN /\ outcome' = Some(Raise("RuntimeError", "Session is closed", ""))
              /\ tpc' = "done"
              /\ UNCHANGED <<posts, sentAt, resp>>
         ELSE /\ posts' = posts + 1
              /\ sentAt' = Some(now)
              /\ \E r \in {None} \cup {Some(x) : x \in Responses} : resp' = r
              /\ tpc' = "inflight"
              /\ outcome' = outcome
    /\ UNCHANGED <<impl, session, rate_limit, now, rlAtStart, startedAt, slept,
                   wakeAt, prevFail>>
    /\ UNCHANGED nonTransport

\* a transport that sends the request again after a failure
Deliver_retry ==
    /\ tpc = "inflight"
    /\ IF resp = None
         THEN /\ outcome' = Some(HandleNetworkFailure(impl))
              /\ rate_limit' = rate_limit
              /\ tpc' = "done"
         ELSE /\ rate_limit' = RateLimitAfter(impl, rate_limit, resp[1].headers)
              /\ outcome' = Some(HandleResponse(impl, resp[1]))
              /\ tpc' = IF HandleResponse(impl, resp[1]).kind = "error" /\ posts < 2
                          THEN "post" ELSE "done"
    /\ UNCHANGED <<impl, session, now, rlAtStart, startedAt, slept, wakeAt,
                   posts, sentAt, resp, prevFail>>
    /\ UNCHANGED nonTransport

\* the body of "async with session.post(...) as response"
Deliver ==
    /\ tpc = "inflight"
    /\ IF resp = None
         THEN /\ outcome' = Some(HandleNetworkFailure(impl))
              /\ rate_limit' = rate_limit
         ELSE /\ rate_limit' = RateLimitAfter(impl, rate_limit, resp[1].headers)
              /\ outcome' = Some(HandleResponse(impl, resp[1]))
    /\ tpc' = "done"
    /\ UNCHANGED <<impl, session, now, rlAtStart, startedAt, slept, wakeAt,
                   posts, sentAt, resp, prevFail>>
    /\ UNCHANGED nonTransport

\* what went wrong with a call, by the precedence of the transport
Cause ==
    IF outcome = None \/ outcome[1].kind # "error" THEN "none"
    ELSE IF posts = 0 THEN "unsent"
    ELSE IF resp = None THEN "network"
    ELSE IF resp[1].status = 401 THEN "401"
    ELSE IF resp[1].status = 403 THEN "403"
    ELSE IF resp[1].status >= 400 THEN "http"
    ELSE IF resp[1].body.json = None THEN "parse"
    ELSE "graphql"

\* the caller gets the result; the client is ready for the next call
Finish ==
    /\ tpc = "done"
    /\ tpc' = "idle"
    /\ prevFail' = IF Cause \in {"none", "unsent"} THEN prevFail
                   ELSE Some([cause |-> Cause, cls |-> outcome[1].cls])
    /\ rlAtStart' = None
    /\ startedAt' = 0
    /\ slept' = None
    /\ wakeAt' = 0
    /\ posts' = 0
    /\ sentAt' = None
    /\ resp' = None
    /\ outcome' = None
    /\ UNCHANGED <<impl, session, rate_limit, now>>
    /\ UNCHANGED nonTransport

TNext ==
    \/ Enter
    \/ Exit
    \/ Tick
    \/ QueryStart
    \/ _check_rate_limit
    \/ Wake
    \/ Post
    \/ Deliver
    \/ Finish

(***************************************************************************)
(* RateLimit.needs_wait as a function of its arguments                     *)
(***************************************************************************)
default_threshold == 100

RateLimitDomain ==
    [limit : {0, 5000}, remaining : {0, 99, 100, 101}, reset_at : {0, 20},
     used : {0, 7}, node_count : {0}]

ThresholdArgs == {None, Some(0), Some(100), Some(101)}

NIdle ==
    /\ nwStatus = None
    /\ nwThreshold = None
    /\ nwAnswer = None
    /\ nwPrev = None

EffectiveThreshold(arg) == IF arg = None THEN default_threshold ELSE arg[1]

\* status.needs_wait() / status.needs_wait(threshold)
NeedsWaitCall ==
    /\ \E rl \in RateLimitDomain, th \in ThresholdArgs :
          /\ nwStatus' = Some(rl)
          /\ nwThreshold' = th
          /\ nwAnswer' = Some(needs_wait(rl, EffectiveThreshold(th)))
    /\ nwPrev' = IF nwAnswer = None THEN None
                 ELSE Some([remaining |-> nwStatus[1].remaining,
                            threshold |-> EffectiveThreshold(nwThreshold),
                            answer |-> nwAnswer[1]])
    /\ UNCHANGED <<tvars, pvars, lvars, cvars, xvars>>

(***************************************************************************)
(* A whole query() call as one step of a caller                            *)
(***************************************************************************)
WalkResponses ==
    {None} \cup
    { Some(r) : r \in
        { [status |-> 200, headers |-> NoHeaders, body |-> DataBody],
          [status |-> 200, headers |-> HeadersBelowThreshold, body |-> DataBody],
          [status |-> 500, headers |-> NoHeaders,
           body |-> [text |-> "<html>", json |-> None]],
          [status |-> 200, headers |-> NoHeaders,
           body |-> [text |-> "{errors:[m1],data}",
                     json |-> Some(JsonBody(Some(<<Some("bad field")>>), Some("D")))]] } }

\* the answers to the aggregate query of contributions(): those of a walk, and
\* a body whose data lacks the user
FetchResponses ==
    WalkResponses \cup
    { Some([status |-> 200, headers |-> NoHeaders,
            body |-> [text |-> "{}", json |-> Some(JsonBody(None, None))]]) }

\* the session after __aenter__ / start_session
SessionEntered(sess) ==
    IF impl = "GraphQLClient" THEN "open"
    ELSE IF sess = "none" THEN "open" ELSE sess

\* the session after __aexit__ / close_session
SessionExited(sess) ==
    IF sess = "none" THEN sess
    ELSE IF impl = "GraphQLClient" THEN "closed"
    ELSE "none"

\* the session a query() call works with, sess being the one it finds
SessionInQuery(sess) ==
    IF impl = "GitHubGraphQLClient" /\ sess = "none" THEN "open" ELSE sess

QueryRejected(sess) == impl = "GraphQLClient" /\ sess = "none"

QuerySent(sess) == ~QueryRejected(sess) /\ sess # "closed"

QueryWaits(sess) ==
    /\ ~QueryRejected(sess)
    /\ rate_limit # None
    /\ needs_wait(rate_limit[1], min_remaining_threshold)
    /\ seconds_until_reset(rate_limit[1], now) + safety_buffer > 0

\* what query() returns or raises when the network answers r
QueryOutcome(sess, r) ==
    IF QueryRejected(sess) THEN Raise("RuntimeError", "Client not initialized", "")
    ELSE IF sess = "closed" THEN Raise("RuntimeError", "Session is closed", "")
    ELSE IF r = None THEN HandleNetworkFailure(impl)
    ELSE HandleResponse(impl, r[1])

\* what query() does to the client when the network answers r; exits tells
\* that the caller leaves its "async with" block right after the call
QueryEffects(sess, r, exits) ==
    /\ session' = IF exits THEN SessionExited(SessionInQuery(sess))
                  ELSE SessionInQuery(sess)
    /\ now' = IF QueryWaits(sess)
                THEN now + seconds_until_reset(rate_limit[1], now) + safety_buffer
                ELSE now
    /\ rate_limit' = IF QuerySent(sess) /\ r # None
                       THEN RateLimitAfter(impl, rate_limit, r[1].headers)
                       ELSE rate_limit
    /\ UNCHANGED <<impl, tpc, rlAtStart, startedAt, slept, wakeAt, posts, sentAt,
                   resp, outcome, prevFail>>

\* the call returned the data of a page
IsPage(o) == o.kind = "data" /\ o.data = Some("D")

(***************************************************************************)
(* GitHubGraphQLClient.paginated_query                                     *)
(***************************************************************************)
CursorSet == {"c1", "c2"}

\* the pageInfo of a page: endCursor is a cursor, null or the empty string
PageSet ==
    [hasNextPage : BOOLEAN,
     endCursor : {None, Some("")} \cup {Some(c) : c \in CursorSet}]

PageLists == UNION { [1..n -> PageSet] : n \in 1..MaxPages }

\* the number of the page the server answers a request with: the first page
\* to the first request, the same page again to a request that carries the
\* cursor of the request before it, and the next page otherwise
RECURSIVE PageNo(_)
PageNo(requests) ==
    IF Len(requests) <= 1 THEN Len(requests)
    ELSE LET before == SubSeq(requests, 1, Len(requests) - 1)
         IN  IF requests[Len(requests)] = requests[Len(requests) - 1]
               THEN PageNo(before)
               ELSE PageNo(before) + 1

\* page n of the collection; past the end, an empty last page
ServerPage(n) ==
    IF n <= Len(pgPages) THEN pgPages[n]
    ELSE [hasNextPage |-> FALSE, endCursor |-> None]

TIdleGQ == TInit /\ impl = "GitHubGraphQLClient"

PIdle ==
    /\ pgPages = <<[hasNextPage |-> FALSE, endCursor |-> None]>>
    /\ pgNested = FALSE
    /\ max_pages = None
    /\ pgPc = "idle"
    /\ has_next_page = TRUE
    /\ cursor = None
    /\ page_count = 0
    /\ pgAfter = None
    /\ pgRequests = <<>>
    /\ pgBatches = <<>>

PInit ==
    /\ pgPages \in PageLists
    /\ pgNested \in BOOLEAN
    /\ max_pages \in {None} \cup {Some(k) : k \in 1..MaxPageCap}
    /\ pgPc = "idle"
    /\ has_next_page = TRUE
    /\ cursor = None
    /\ page_count = 0
    /\ pgAfter = None
    /\ pgRequests = <<>>
    /\ pgBatches = <<>>

\* Python truth value of an Optional string
Truthy(c) == c # None /\ c[1] # ""

\* a loop test that forgets the page cap
PagerContinues_nocap == has_next_page

\* the loop test of paginated_query
PagerContinues ==
    has_next_page /\ (IF max_pages = None THEN TRUE ELSE page_count < max_pages[1])

\* paginated_query is called: the assignments before the loop
PagerStart ==
    /\ pgPc = "idle"
    /\ pgPc' = "loop"
    /\ has_next_page' = TRUE
    /\ cursor' = None
    /\ page_count' = 0
    /\ pgAfter' = None
    /\ pgRequests' = <<>>
    /\ pgBatches' = <<>>
    /\ UNCHANGED <<pgPages, pgNested, max_pages>>
    /\ UNCHANGED <<tvars, nvars, lvars, cvars, xvars>>

\* the pageInfo found by the scan of data.items(), if any
page_info(page) == IF pgNested THEN None ELSE Some(page)

\* a scan that descends to the collection wherever it lies
page_info_deep(page) == Some(page)

\* one iteration of the loop: request, yield, read pageInfo
PagerStep ==
    /\ pgPc = "loop"
    /\ PagerContinues
    /\ Len(pgRequests) < MaxRequests
    /\ LET after == IF Truthy(cursor) THEN cursor ELSE pgAfter
           page == ServerPage(PageNo(Append(pgRequests, after)))
       IN  \E r \in WalkResponses :
             /\ QueryEffects(session, r, FALSE)
             /\ pgAfter' = after
             /\ pgRequests' = Append(pgRequests, after)
             /\ IF IsPage(QueryOutcome(session, r))
                  THEN /\ pgBatches' = Append(pgBatches, page)
                       /\ has_next_page' = IF page_info(page) = None THEN FALSE
                                            ELSE page_info(page)[1].hasNextPage
                       /\ cursor' = IF page_info(page) = None THEN cursor
                                     ELSE page_info(page)[1].endCursor
                       /\ page_count' = page_count + 1
                       /\ pgPc' = "loop"
                  ELSE /\ pgPc' = "raised"
                       /\ UNCHANGED <<pgBatches, has_next_page, cursor, page_count>>
    /\ UNCHANGED <<pgPages, pgNested, max_pages>>
    /\ UNCHANGED <<nvars, lvars, cvars, xvars>>

\* the loop test fails: the generator is exhausted
PagerStop ==
    /\ pgPc = "loop"
    /\ ~PagerContinues
    /\ pgPc' = "done"
    /\ UNCHANGED <<pgPages, pgNested, max_pages, has_next_page, cursor, page_count,
                   pgAfter, pgRequests, pgBatches>>
    /\ UNCHANGED <<tvars, nvars, lvars, cvars, xvars>>

PNext ==
    \/ PagerStart
    \/ PagerStep
    \/ PagerStop

(***************************************************************************)
(* GitHubContributionSource: the pull-request line calculation, and        *)
(* ProgressiveGitHubSource.contributions                                   *)
(***************************************************************************)
PullRequestNode(createdAt, mergedAt, additions, deletions) ==
    [createdAt |-> createdAt, mergedAt |-> mergedAt, additions |-> additions,
     deletions |-> deletions]

PrNodeSet ==
    { PullRequestNode("2024-01-10T08:00:00Z", Some("2024-01-15T10:00:00Z"), Some(75), Some(15)),
      PullRequestNode("2023-12-20T09:00:00Z", Some("2024-02-25T12:00:00Z"), Some(40), Some(8)),
      PullRequestNode("2023-05-01T00:00:00Z", Some("2023-05-02T00:00:00Z"), Some(5), Some(1)),
      PullRequestNode("2024-03-01T00:00:00Z", None, None, Some(3)) }

YearSet == {2023, 2024}

\* datetime.fromisoformat(s.replace("Z", "+00:00")).year
IsoYear ==
    ("2024-01-10T08:00:00Z" :> 2024) @@ ("2024-01-15T10:00:00Z" :> 2024)
        @@ ("2023-12-20T09:00:00Z" :> 2023) @@ ("2024-02-25T12:00:00Z" :> 2024)
        @@ ("2023-05-01T00:00:00Z" :> 2023) @@ ("2023-05-02T00:00:00Z" :> 2023)
        @@ ("2024-03-01T00:00:00Z" :> 2024)

\* the order of the createdAt stamps
CreatedRank ==
    ("2023-05-01T00:00:00Z" :> 1) @@ ("2023-12-20T09:00:00Z" :> 2)
        @@ ("2024-01-10T08:00:00Z" :> 3) @@ ("2024-03-01T00:00:00Z" :> 4)

PrPageSet == UNION { [1..n -> PrNodeSet] : n \in 0..MaxPrPerPage }

PrPageLists == UNION { [1..n -> PrPageSet] : n \in 1..MaxPrPages }

\* value or 0
OrZero(v) == IF v = None THEN 0 ELSE v[1]

\* a filter that looks at the creation date only
PrInYear_created(pr_node, year) == IsoYear[pr_node.createdAt] = year

\* the filter of _calculate_lines_from_prs
PrInYear(pr_node, year) ==
    \/ IsoYear[pr_node.createdAt] = year
    \/ (pr_node.mergedAt # None /\ IsoYear[pr_node.mergedAt[1]] = year)

RECURSIVE SumAdditions(_)
SumAdditions(nodes) ==
    IF nodes = <<>> THEN 0
    ELSE OrZero(Head(nodes).additions) + SumAdditions(Tail(nodes))

RECURSIVE SumDeletions(_)
SumDeletions(nodes) ==
    IF nodes = <<>> THEN 0
    ELSE OrZero(Head(nodes).deletions) + SumDeletions(Tail(nodes))

LineStats(lines_added, lines_deleted, count) ==
    [lines_added |-> lines_added, lines_deleted |-> lines_deleted, pr_count |-> count]

\* the keyword arguments with which contributions() and
\* ProgressiveGitHubSource.contributions build their ContributionStats
SnapshotKwargs(username, year, lines_added, lines_deleted) ==
    [username |-> username, year |-> year, total_commits |-> 150, total_prs |-> 25,
     total_issues |-> 10, total_discussions |-> 5, total_reviews |-> 30,
     repositories_contributed |-> 8, languages |-> "{Python: 100}",
     starred_repos |-> 250, followers |-> 50, following |-> 75, public_repos |-> 15,
     private_contributions |-> 5, lines_added |-> lines_added,
     lines_deleted |-> lines_deleted]

\* a contributions() that answers a failure with a zero-filled snapshot
contributions_swallow(username, year, o) ==
    LET built == IF o.kind = "error" THEN o
                 ELSE IF o.data # Some("D") THEN Raise("KeyError", "user", "")
                 ELSE ContributionStats(SnapshotKwargs(username, year, 0, 0))
    IN  IF built.kind = "error"
          THEN Return(SnapshotKwargs(username, year, 0, 0) @@ [created_at |-> "now"])
          ELSE built

\* GitHubContributionSource.contributions, o being what client.query returned
\* or raised: the body of its try block, and its except clause
contributions(username, year, o) ==
    LET built == IF o.kind = "error" THEN o
                 ELSE IF o.data # Some("D") THEN Raise("KeyError", "user", "")
                 ELSE ContributionStats(SnapshotKwargs(username, year, 0, 0))
    IN  IF built.kind = "error"
          THEN Raise("GitHubAPIError", "Failed to fetch contributions", built.cls)
          ELSE built

LIdle ==
    /\ prPages = <<<<>>>>
    /\ lnYear = 2024
    /\ lnPc = "idle"
    /\ total_added = 0
    /\ total_deleted = 0
    /\ pr_count = 0
    /\ pr_cursor = None
    /\ prRequests = <<>>
    /\ line_stats = None
    /\ prRaised = FALSE
    /\ lnCalls = <<>>
    /\ progPc = "idle"
    /\ base_stats = None
    /\ progress = <<>>
    /\ stats = None

LInit ==
    /\ prPages \in PrPageLists
    /\ lnYear \in YearSet
    /\ lnPc = "idle"
    /\ total_added = 0
    /\ total_deleted = 0
    /\ pr_count = 0
    /\ pr_cursor = None
    /\ prRequests = <<>>
    /\ line_stats = None
    /\ prRaised = FALSE
    /\ lnCalls = <<>>
    /\ progPc = "idle"
    /\ base_stats = None
    /\ progress = <<>>
    /\ stats = None

\* calculate_line_stats -> _calculate_lines_from_prs up to its loop
EnterPrLoop ==
    /\ lnPc = "idle"
    /\ lnPc' = "pr_loop"
    /\ lnCalls' = Append(lnCalls, "_calculate_lines_from_prs")
    /\ total_added' = 0
    /\ total_deleted' = 0
    /\ pr_count' = 0
    /\ pr_cursor' = None
    /\ session' = SessionEntered(session)
    /\ UNCHANGED <<prPages, lnYear, prRequests, line_stats, prRaised, base_stats, stats>>
    /\ UNCHANGED <<impl, rate_limit, now, tpc, rlAtStart, startedAt, slept, wakeAt,
                   posts, sentAt, resp, outcome, prevFail>>
    /\ UNCHANGED <<nvars, pvars, cvars, xvars>>

\* calculate_line_stats called by itself
calculate_line_stats ==
    /\ progPc = "idle"
    /\ EnterPrLoop
    /\ UNCHANGED <<progPc, progress>>

\* the pageInfo the server sends with page pageNo of a collection: the cursor
\* that ends page k is k, and the page after cursor k is page k + 1
WalkPageInfo(pages, pageNo) ==
    [hasNextPage |-> pageNo < Len(pages), endCursor |-> Some(pageNo)]

\* a loop that keeps the cursor it sent
cursor_after_keep(sent, pageInfo) == sent

\* cursor = ...["pageInfo"]["endCursor"] at the end of an iteration
cursor_after(sent, pageInfo) == pageInfo.endCursor

\* an except clause that returns what the pages before the failure added up to
ReturnedOnFailure_partial(added, deleted, count) == LineStats(added, deleted, count)

\* the except clause of _calculate_lines_from_prs: return LineStats(0, 0)
ReturnedOnFailure(added, deleted, count) == LineStats(0, 0, 0)

\* one iteration of the loop of _calculate_lines_from_prs, with the return
\* that follows the last page and the return of the except branch
PrFetch ==
    /\ lnPc = "pr_loop"
    /\ \E r \in WalkResponses :
         LET pageNo == IF pr_cursor = None THEN 1 ELSE pr_cursor[1] + 1
             nodes == prPages[pageNo]
             year_prs == SelectSeq(nodes, LAMBDA n : PrInYear(n, lnYear))
             added == total_added + SumAdditions(year_prs)
             deleted == total_deleted + SumDeletions(year_prs)
             count == pr_count + Len(year_prs)
             ok == IsPage(QueryOutcome(session, r))
             last == pageNo >= Len(prPages)
         IN  /\ QueryEffects(session, r, ~ok \/ last)
             /\ prRequests' = Append(prRequests, pr_cursor)
             /\ IF ~ok
                  THEN /\ line_stats' = Some(ReturnedOnFailure(total_added, total_deleted,
                                                                 pr_count))
                       /\ prRaised' = TRUE
                       /\ lnPc' = "done"
                       /\ UNCHANGED <<total_added, total_deleted, pr_count, pr_cursor>>
                  ELSE /\ total_added' = added
                       /\ total_deleted' = deleted
                       /\ pr_count' = count
                       /\ prRaised' = prRaised
                       /\ IF last
                            THEN /\ line_stats' = Some(LineStats(added, deleted, count))
                                 /\ lnPc' = "done"
                                 /\ pr_cursor' = pr_cursor
                            ELSE /\ line_stats' = line_stats
                                 /\ lnPc' = "pr_loop"
                                 /\ pr_cursor' = cursor_after(pr_cursor,
                                                  WalkPageInfo(prPages, pageNo))
    /\ UNCHANGED <<prPages, lnYear, lnCalls, progPc, base_stats, progress, stats>>
    /\ UNCHANGED <<nvars, pvars, cvars, xvars>>

\* ProgressiveGitHubSource.contributions: the first report
ProgStart ==
    /\ progPc = "idle"
    /\ lnPc = "idle"
    /\ progPc' = "base"
    /\ progress' = Append(progress, "Fetching contribution data")
    /\ UNCHANGED <<prPages, lnYear, lnPc, total_added, total_deleted, pr_count,
                   pr_cursor, prRequests, line_stats, prRaised, lnCalls, base_stats,
                   stats>>
    /\ UNCHANGED <<tvars, nvars, pvars, cvars, xvars>>

\* base_stats = await self._source.contributions(username, year)
ProgBase ==
    /\ progPc = "base"
    /\ \E r \in FetchResponses :
         LET base == contributions("octocat", lnYear,
                                   QueryOutcome(SessionEntered(session), r))
         IN  /\ QueryEffects(SessionEntered(session), r, TRUE)
             /\ IF base.kind = "data"
                  THEN /\ base_stats' = base.data
                       /\ progPc' = "calc"
                  ELSE /\ base_stats' = base_stats
                       /\ progPc' = "raised"
    /\ UNCHANGED <<prPages, lnYear, lnPc, total_added, total_deleted, pr_count,
                   pr_cursor, prRequests, line_stats, prRaised, lnCalls, progress,
                   stats>>
    /\ UNCHANGED <<nvars, pvars, cvars, xvars>>

\* the snapshot of a source whose contributions() builds it as models.py
\* declares it: with date_range, without year
ConformingStats(username, year) ==
    LET kw == SnapshotKwargs(username, year, 0, 0)
    IN  ContributionStats([k \in DOMAIN kw \ {"year"} |-> kw[k]]
                          @@ [date_range |-> calendar_year(year)])

\* base_stats = await self._source.contributions(username, year), the wrapped
\* source being one that returns a ConformingStats
ProgBaseGiven ==
    /\ progPc = "base"
    /\ base_stats' = ConformingStats("octocat", lnYear).data
    /\ progPc' = "calc"
    /\ UNCHANGED <<prPages, lnYear, lnPc, total_added, total_deleted, pr_count,
                   pr_cursor, prRequests, line_stats, prRaised, lnCalls, progress,
                   stats>>
    /\ UNCHANGED <<tvars, nvars, pvars, cvars, xvars>>

\* the second report and the call of calculate_line_stats
ProgCalc ==
    /\ progPc = "calc"
    /\ progPc' = "lines"
    /\ progress' = Append(progress, "Calculating lines using pull requests method")
    /\ EnterPrLoop

\* the keyword arguments of the snapshot ProgressiveGitHubSource returns
ProgressiveKwargs(base, lines_added, lines_deleted) ==
    [k \in DOMAIN SnapshotKwargs("", 0, 0, 0) \cup {"created_at"} |->
        IF k = "lines_added" THEN lines_added
        ELSE IF k = "lines_deleted" THEN lines_deleted
        ELSE IF k = "year" THEN ContributionStats_year(base)
        ELSE base[k]]

\* the third report and the snapshot built in the try block, or else the one
\* built in the except clause
ProgReturn ==
    /\ progPc = "lines"
    /\ lnPc = "done"
    /\ progress' = Append(progress, "Found")
    /\ LET built == ContributionStats(ProgressiveKwargs(base_stats[1],
                                          line_stats[1].lines_added,
                                          line_stats[1].lines_deleted))
           zeroed == ContributionStats(ProgressiveKwargs(base_stats[1], 0, 0))
       IN  IF built.kind = "data"
             THEN stats' = built.data /\ progPc' = "done"
           ELSE IF zeroed.kind = "data"
             THEN stats' = zeroed.data /\ progPc' = "done"
           ELSE stats' = stats /\ progPc' = "raised"
    /\ UNCHANGED <<prPages, lnYear, lnPc, total_added, total_deleted, pr_count,
                   pr_cursor, prRequests, line_stats, prRaised, lnCalls, base_stats>>
    /\ UNCHANGED <<tvars, nvars, pvars, cvars, xvars>>

\* contributions() raises on every path, so the steps of
\* ProgressiveGitHubSource.contributions that follow it are never taken
LNext ==
    \/ calculate_line_stats
    \/ PrFetch
    \/ ProgStart
    \/ ProgBase

\* ProgressiveGitHubSource.contributions over either source
GNext ==
    \/ ProgStart
    \/ ProgBase
    \/ ProgBaseGiven
    \/ ProgCalc
    \/ PrFetch
    \/ ProgReturn

(***************************************************************************)
(* GitHubContributionSource.contributions: the language statistics         *)
(***************************************************************************)
\* an entry of commitContributionsByRepository: the repository's primary
\* language (None: null) and contributions.totalCount
RepoContribSet ==
    { [primaryLanguage |-> l, totalCount |-> c] :
        l \in {None, Some("Python"), Some("Go")}, c \in {1, 100} }

BreakdownSet == UNION { [1..n -> RepoContribSet] : n \in 0..MaxBreakdown }

\* the loop over commitContributionsByRepository:
\* languages[lang] = languages.get(lang, 0) + count
RECURSIVE languages_loop(_, _)
languages_loop(list, languages) ==
    IF list = <<>> THEN languages
    ELSE LET repo_contrib == Head(list)
         IN  IF repo_contrib.primaryLanguage = None
               THEN languages_loop(Tail(list), languages)
             ELSE LET lang == repo_contrib.primaryLanguage[1]
                      count == repo_contrib.totalCount
                      sofar == IF lang \in DOMAIN languages THEN languages[lang] ELSE 0
                  IN  languages_loop(Tail(list),
                         [l \in DOMAIN languages \cup {lang} |->
                             IF l = lang THEN sofar + count ELSE languages[l]])

languages_of(list) == languages_loop(list, <<>>)

\* the keyword arguments contributions() builds its snapshot from
ContributionKwargs(username, year, list) ==
    [k \in DOMAIN SnapshotKwargs(username, year, 0, 0) |->
        IF k = "languages" THEN languages_of(list)
        ELSE SnapshotKwargs(username, year, 0, 0)[k]]

GIdle ==
    /\ breakdown = <<>>
    /\ fetchResult = None

GInit ==
    /\ breakdown \in BreakdownSet
    /\ fetchResult = None

\* contributions(username, year): the query, the language statistics, the
\* snapshot, and the except clause
FetchContributions ==
    /\ fetchResult = None
    /\ \E r \in FetchResponses :
         LET o == QueryOutcome(SessionEntered(session), r)
             built == IF o.kind = "error" THEN o
                      ELSE IF o.data # Some("D") THEN Raise("KeyError", "user", "")
                      ELSE ContributionStats(ContributionKwargs("octocat", 2024, breakdown))
         IN  /\ QueryEffects(SessionEntered(session), r, TRUE)
             /\ fetchResult' =
                  Some([answered |-> (o.kind = "data" /\ o.data = Some("D")),
                        outcome |-> IF built.kind = "error"
                                      THEN Raise("GitHubAPIError",
                                                 "Failed to fetch contributions", built.cls)
                                      ELSE built])
    /\ UNCHANGED breakdown
    /\ UNCHANGED <<nvars, pvars, lvars, cvars, svars, bvars, avars, qvars, kvars, hvars>>

(***************************************************************************)
(* GitHubContributionSource.commits and _fetch_repo_commits                *)
(***************************************************************************)
CommitNodeSet ==
    { [additions |-> Some(50), deletions |-> Some(10)],
      [additions |-> None, deletions |-> Some(5)] }

CommitPageSet == UNION { [1..n -> CommitNodeSet] : n \in 0..MaxCommitsPerPage }

\* a history of no page stands for a repository the query returns as null
HistorySet == UNION { [1..n -> CommitPageSet] : n \in 0..MaxCommitPages }

RepoLists == UNION { [1..n -> HistorySet] : n \in 0..MaxRepos }

\* the Commit objects made of page p of repository i
CommitsOfPage(i, p) ==
    [k \in 1..Len(repos[i][p]) |->
        [oid |-> <<i, p, k>>,
         additions |-> OrZero(repos[i][p][k].additions),
         deletions |-> OrZero(repos[i][p][k].deletions)]]

CIdle ==
    /\ repos = <<>>
    /\ cmPc = "idle"
    /\ repo_index = 0
    /\ commit_cursor = None
    /\ commits = <<>>
    /\ all_commits = <<>>
    /\ cmResult = None
    /\ cmFailed = {}
    /\ cmWalked = <<>>
    /\ cmRequests = <<>>

CInit ==
    /\ repos \in RepoLists
    /\ cmPc = "idle"
    /\ repo_index = 0
    /\ commit_cursor = None
    /\ commits = <<>>
    /\ all_commits = <<>>
    /\ cmResult = None
    /\ cmFailed = {}
    /\ cmWalked = <<>>
    /\ cmRequests = <<>>

\* commits(username, year) is called: "async with self._client"
CommitsStart ==
    /\ cmPc = "idle"
    /\ cmPc' = "repos"
    /\ session' = SessionEntered(session)
    /\ UNCHANGED <<repos, repo_index, commit_cursor, commits, all_commits, cmResult,
                   cmFailed, cmWalked, cmRequests>>
    /\ UNCHANGED <<impl, rate_limit, now, tpc, rlAtStart, startedAt, slept, wakeAt,
                   posts, sentAt, resp, outcome, prevFail>>
    /\ UNCHANGED <<nvars, pvars, lvars, xvars>>

\* the query of the repository breakdown
ReposQuery ==
    /\ cmPc = "repos"
    /\ \E r \in WalkResponses :
         LET ok == IsPage(QueryOutcome(session, r))
         IN  /\ QueryEffects(session, r, ~ok \/ repos = <<>>)
             /\ IF ~ok THEN cmPc' = "raised" /\ UNCHANGED <<repo_index, cmResult>>
                ELSE IF repos = <<>>
                  THEN cmPc' = "done" /\ cmResult' = Some(<<>>) /\ UNCHANGED repo_index
                ELSE cmPc' = "walk" /\ repo_index' = 1 /\ UNCHANGED cmResult
    /\ UNCHANGED <<repos, commit_cursor, commits, all_commits, cmFailed, cmWalked,
                     cmRequests>>
    /\ UNCHANGED <<nvars, pvars, lvars, xvars>>

\* a fetch that returns nothing of a repository whose query raised
ReturnedOnError_none(sofar) == <<>>

\* what _fetch_repo_commits returns when a query raises: the commits so far
ReturnedOnError(sofar) == sofar

\* one iteration of the loop of _fetch_repo_commits; when the loop ends, the
\* extend() of commits() and the step to the next repository or the return
RepoFetch ==
    /\ cmPc = "walk"
    /\ \E r \in WalkResponses :
         LET pageNo == IF commit_cursor = None THEN 1 ELSE commit_cursor[1] + 1
             ok == IsPage(QueryOutcome(session, r))
             missing == repos[repo_index] = <<>>
             got == IF ~ok THEN ReturnedOnError(commits)
                    ELSE IF missing THEN commits
                    ELSE commits \o CommitsOfPage(repo_index, pageNo)
             ends == ~ok \/ missing \/ pageNo >= Len(repos[repo_index])
             returns == ends /\ repo_index >= Len(repos)
         IN  /\ QueryEffects(session, r, returns)
             /\ cmFailed' = IF ok THEN cmFailed ELSE cmFailed \cup {repo_index}
             /\ cmWalked' = IF commit_cursor = None THEN Append(cmWalked, repo_index)
                            ELSE cmWalked
             /\ cmRequests' = Append(cmRequests, <<repo_index, commit_cursor>>)
             /\ IF ~ends
                  THEN /\ commits' = got
                       /\ commit_cursor' = cursor_after(commit_cursor,
                                           WalkPageInfo(repos[repo_index], pageNo))
                       /\ UNCHANGED <<all_commits, repo_index, cmPc, cmResult>>
                  ELSE /\ commits' = <<>>
                       /\ commit_cursor' = None
                       /\ all_commits' = all_commits \o got
                       /\ IF returns
                            THEN /\ cmResult' = Some(all_commits \o got)
                                 /\ cmPc' = "done"
                                 /\ repo_index' = repo_index
                            ELSE /\ cmResult' = cmResult
                                 /\ cmPc' = "walk"
                                 /\ repo_index' = repo_index + 1
    /\ UNCHANGED repos
    /\ UNCHANGED <<nvars, pvars, lvars, xvars>>

CNext ==
    \/ CommitsStart
    \/ ReposQuery
    \/ RepoFetch

(***************************************************************************)
(* Table contribution_reports: PostgreSQLReportStorage and DatabaseManager  *)
(***************************************************************************)
FirstYear == 2008

\* datetime.now().year
CurrentYear == FirstYear + YearSpan - 1

ReportYears == FirstYear..CurrentYear

Usernames == {"octocat", "hubot"}

SummedColumns ==
    {"total_commits", "total_prs", "total_issues", "total_discussions",
     "total_reviews", "private_contributions", "lines_added", "lines_deleted"}

SnapshotColumns ==
    {"repositories_contributed", "starred_repos", "followers", "following",
     "public_repos"}

ValueColumns == SummedColumns \cup SnapshotColumns \cup {"languages"}

\* the parameters the INSERT statement of store() names
InsertParams == {"username", "year"} \cup ValueColumns

Histogram(langs, count) == [l \in langs |-> count[l]]

ReportRow(total_commits, repositories_contributed, languages, k) ==
    [total_commits |-> total_commits, total_prs |-> 10 + k, total_issues |-> 4 + k,
     total_discussions |-> 2 + k, total_reviews |-> 7 + k,
     repositories_contributed |-> repositories_contributed, languages |-> languages,
     starred_repos |-> 20 - k, followers |-> 3 + k, following |-> 6 + k,
     public_repos |-> 9 + k, private_contributions |-> 1 + k,
     lines_added |-> 1000 + 500 * k, lines_deleted |-> 300 + 100 * k,
     created_at |-> 0]

RowSet ==
    { ReportRow(100, 5, Histogram({"Python"}, [Python |-> 100]), 0),
      ReportRow(150, 8, Histogram({"Python", "Go"}, [Python |-> 50, Go |-> 30]), 1),
      ReportRow(200, 10, Histogram({}, <<>>), 2) }

\* the tables: at most one row per (username, year)
TableSet ==
    UNION { [K -> RowSet] :
              K \in SUBSET (({"octocat"} \X ReportYears) \cup {<<"hubot", FirstYear>>}) }

\* WHERE username = %s
RowsOf(table, username) == { k \in DOMAIN table : k[1] = username }

RECURSIVE SumOver(_, _, _)
SumOver(table, keys, column) ==
    IF keys = {} THEN 0
    ELSE LET k == CHOOSE x \in keys : TRUE
         IN  table[k][column] + SumOver(table, keys \ {k}, column)

MinOf(S) == CHOOSE x \in S : \A y \in S : x <= y
MaxOf(S) == CHOOSE x \in S : \A y \in S : x >= y

\* SELECT username, COUNT(*), SUM(..), MIN(year), MAX(year), MAX(created_at)
\* ... WHERE username = %s GROUP BY username; fetchone()
cumulative_query(table, username) ==
    LET keys == RowsOf(table, username)
    IN  IF keys = {} THEN None
        ELSE Some([c \in SummedColumns |-> SumOver(table, keys, c)] @@
                  [username |-> username,
                   total_years |-> Cardinality(keys),
                   first_year |-> MinOf({k[2] : k \in keys}),
                   last_year |-> MaxOf({k[2] : k \in keys}),
                   last_updated |-> MaxOf({table[k].created_at : k \in keys})])

\* SELECT repositories_contributed, .. WHERE username = %s
\* ORDER BY year DESC LIMIT 1; fetchone()
snapshot_query(table, username) ==
    LET keys == RowsOf(table, username)
    IN  IF keys = {} THEN None
        ELSE LET k == CHOOSE x \in keys : x[2] = MaxOf({y[2] : y \in keys})
             IN  Some([c \in SnapshotColumns |-> table[k][c]])

RECURSIVE SumLanguage(_, _, _)
SumLanguage(table, keys, lang) ==
    IF keys = {} THEN 0
    ELSE LET k == CHOOSE x \in keys : TRUE
         IN  (IF lang \in DOMAIN table[k].languages THEN table[k].languages[lang] ELSE 0)
             + SumLanguage(table, keys \ {k}, lang)

\* SELECT jsonb_object_agg(lang, total_commits) FROM (SELECT lang,
\* SUM(commits::integer) .. jsonb_each_text(cr.languages) .. GROUP BY lang);
\* lang_result[0] if lang_result and lang_result[0] else {}
lang_query(table, username) ==
    LET keys == RowsOf(table, username)
        langs == UNION { DOMAIN table[k].languages : k \in keys }
    IN  [l \in langs |-> SumLanguage(table, keys, l)]

\* the fields of the aggregate, from the three query results
AllTimeKwargs(cumulative, snapshot, languages) ==
    cumulative @@ snapshot @@ [languages |-> languages]

\* what aggregated() / get_all_time_stats() hands back once the three queries
\* have answered: an AllTimeStats, or the dictionary itself
AllTimeResult(cls, cumulative, snapshot, languages) ==
    IF cls = "PostgreSQLReportStorage"
      THEN AllTimeStats(AllTimeKwargs(cumulative, snapshot, languages))
      ELSE Return(AllTimeKwargs(cumulative, snapshot, languages))

\* the ContributionStats objects a caller can hand to store()
StoreArgs ==
    { ContributionStats([c \in ValueColumns |-> row[c]] @@
                        [username |-> u, date_range |-> calendar_year(y)]).data[1] :
        u \in {"octocat"}, y \in {FirstYear, CurrentYear},
        row \in { r \in RowSet : r.total_commits # 150 } }

\* dataclasses.asdict(stats): the fields, without the properties
asdict(obj) == obj

\* store() / save_report(): the parameters are bound by name, then
\* INSERT .. ON CONFLICT (username, year) DO UPDATE SET .. created_at = now
store(table, snapshot, clock) ==
    LET data == asdict(snapshot)
    IN  IF ~(InsertParams \subseteq DOMAIN data)
          THEN [table |-> table, outcome |-> Raise("KeyError", "year", "")]
          ELSE LET key == <<data.username, data.year>>
                   row == [c \in ValueColumns |-> data[c]] @@ [created_at |-> clock]
               IN  [table |-> [k \in DOMAIN table \cup {key} |->
                                  IF k = key THEN row ELSE table[k]],
                    outcome |-> Return("id")]

SIdle ==
    /\ reports = <<>>
    /\ stImpl = "PostgreSQLReportStorage"
    /\ storeCalls = <<>>
    /\ aggPc = "idle"
    /\ aggUser = ""
    /\ cumulative_result = None
    /\ snapshot_result = None
    /\ alltime_stats = None

SInit ==
    /\ reports \in TableSet
    /\ stImpl \in {"PostgreSQLReportStorage", "DatabaseManager"}
    /\ storeCalls = <<>>
    /\ aggPc = "idle"
    /\ aggUser = ""
    /\ cumulative_result = None
    /\ snapshot_result = None
    /\ alltime_stats = None

\* a call of store() / save_report()
Store ==
    /\ Len(storeCalls) < MaxStoreCalls
    /\ \E arg \in StoreArgs :
         LET res == store(reports, arg, now)
         IN  /\ reports' = res.table
             /\ storeCalls' = Append(storeCalls,
                                     [arg |-> arg, before |-> reports,
                                      outcome |-> res.outcome])
    /\ UNCHANGED <<stImpl, aggPc, aggUser, cumulative_result, snapshot_result,
                   alltime_stats>>
    /\ UNCHANGED <<tvars, nvars, pvars, lvars, cvars, bvars, avars, qvars, kvars, gvars, hvars>>

\* aggregated(username): the cumulative query
AggCumulative(username) ==
    /\ aggPc = "idle"
    /\ aggUser' = username
    /\ cumulative_result' = cumulative_query(reports, username)
    /\ snapshot_result' = None
    /\ IF cumulative_query(reports, username) = None
         THEN aggPc' = "done" /\ alltime_stats' = Some(ReturnNone)
         ELSE aggPc' = "snapshot" /\ alltime_stats' = None
    /\ UNCHANGED <<reports, stImpl, storeCalls>>

\* a call of aggregated() / get_all_time_stats() from outside the commands
aggregated ==
    /\ \E username \in Usernames : AggCumulative(username)
    /\ UNCHANGED <<tvars, nvars, pvars, lvars, cvars, bvars, avars, qvars, kvars, gvars, hvars>>

\* the latest-year query
AggSnapshot ==
    /\ aggPc = "snapshot"
    /\ snapshot_result' = snapshot_query(reports, aggUser)
    /\ aggPc' = "languages"
    /\ UNCHANGED <<reports, stImpl, storeCalls, aggUser, cumulative_result,
                   alltime_stats>>
    /\ UNCHANGED <<tvars, nvars, pvars, lvars, cvars, bvars, avars, qvars, kvars, gvars, hvars>>

\* if cumulative_result and snapshot_result: the language query and the
\* result; otherwise None
AggLanguages ==
    /\ aggPc = "languages"
    /\ aggPc' = "done"
    /\ alltime_stats' =
         IF snapshot_result = None THEN Some(ReturnNone)
         ELSE Some(AllTimeResult(stImpl, cumulative_result[1], snapshot_result[1],
                                 lang_query(reports, aggUser)))
    /\ UNCHANGED <<reports, stImpl, storeCalls, aggUser, cumulative_result,
                   snapshot_result>>
    /\ UNCHANGED <<tvars, nvars, pvars, lvars, cvars, bvars, avars, qvars, kvars, gvars, hvars>>

SNext ==
    \/ Store
    \/ aggregated
    \/ AggSnapshot
    \/ AggLanguages

(***************************************************************************)
(* GitHubBotCommands: analyze_command and alltime_command                  *)
(***************************************************************************)
RECURSIVE Ascending(_)
Ascending(S) == IF S = {} THEN <<>> ELSE <<MinOf(S)>> \o Ascending(S \ {MinOf(S)})

\* years(username): SELECT year .. WHERE username = %s ORDER BY year
years(table, username) == Ascending({ k[2] : k \in RowsOf(table, username) })

\* list(range(2008, current_year + 1))
all_years == [i \in 1..(CurrentYear - FirstYear + 1) |-> FirstYear + i - 1]

\* the year arguments tried on analyze_command
YearArgs == {FirstYear - 1, FirstYear, CurrentYear, CurrentYear + 1}

Reply(kind, text) == [kind |-> kind, text |-> text]

BIdle ==
    /\ command = "none"
    /\ argUser = ""
    /\ botPc = "idle"
    /\ existing_years = <<>>
    /\ missing_years = <<>>
    /\ year_i = 0
    /\ attempts = <<>>
    /\ successful_analyses = 0
    /\ telegram_users = {}
    /\ reply = None

\* ProgressiveGitHubSource.contributions up to the return of the wrapped
\* contributions(), the network answering r
Attempt(username, year, r) ==
    [year |-> year, response |-> r,
     queried |-> QueryOutcome(SessionEntered(session), r),
     outcome |-> contributions(username, year,
                               QueryOutcome(SessionEntered(session), r))]

\* analyze_command: the year check, the fetch, and the except clause
analyze_command ==
    /\ botPc = "idle"
    /\ command = "none"
    /\ \E username \in {"octocat"}, year \in YearArgs, r \in FetchResponses :
         /\ command' = "analyze"
         /\ argUser' = username
         /\ IF year < FirstYear \/ year > CurrentYear
              THEN /\ reply' = Some(Reply("invalid_year", "Invalid year!"))
                   /\ botPc' = "done"
                   /\ attempts' = attempts
                   /\ UNCHANGED tvars
              ELSE /\ QueryEffects(SessionEntered(session), r, TRUE)
                   /\ attempts' = Append(attempts, Attempt(username, year, r))
                   /\ IF Attempt(username, year, r).outcome.kind = "error"
                        THEN /\ reply' = Some(Reply("error",
                                                Attempt(username, year, r).outcome.msg))
                             /\ botPc' = "done"
                        ELSE /\ reply' = reply
                             /\ botPc' = "lines"
    /\ UNCHANGED <<existing_years, missing_years, year_i, successful_analyses,
                   telegram_users>>
    /\ UNCHANGED <<nvars, pvars, lvars, cvars, svars, avars, qvars, kvars, gvars, hvars>>

\* a backfill that takes every year as missing
missing_of_all(every, existing) == every

\* missing_years = [year for year in all_years if year not in existing_years]
missing_of(every, existing) ==
    SelectSeq(every, LAMBDA y : \A i \in 1..Len(existing) : existing[i] # y)

\* alltime_command up to the loop: the stored years and the missing ones
alltime_command ==
    /\ botPc = "idle"
    /\ command = "none"
    /\ \E username \in Usernames :
         LET existing == years(reports, username)
             missing == missing_of(all_years, existing)
         IN  /\ command' = "alltime"
             /\ argUser' = username
             /\ existing_years' = existing
             /\ missing_years' = missing
             /\ year_i' = 1
             /\ successful_analyses' = 0
             /\ botPc' = IF missing # <<>> THEN "loop" ELSE "aggregate"
    /\ UNCHANGED <<attempts, telegram_users, reply>>
    /\ UNCHANGED <<tvars, nvars, pvars, lvars, cvars, svars, avars, qvars, kvars, gvars, hvars>>

\* a loop that gives up at the first year that fails
NextYearIndex_stop(failed) == IF failed THEN Len(missing_years) + 1 ELSE year_i + 1

\* for i, year in enumerate(missing_years, 1): .. except Exception: continue
NextYearIndex(failed) == year_i + 1

\* one turn of the loop of alltime_command
AlltimeAttempt ==
    /\ botPc = "loop"
    /\ year_i <= Len(missing_years)
    /\ \E r \in FetchResponses :
         LET a == Attempt(argUser, missing_years[year_i], r)
         IN  /\ QueryEffects(SessionEntered(session), r, TRUE)
             /\ attempts' = Append(attempts, a)
             /\ IF a.outcome.kind = "error"
                  THEN /\ year_i' = NextYearIndex(TRUE)
                       /\ botPc' = IF NextYearIndex(TRUE) > Len(missing_years)
                                     THEN "aggregate" ELSE "loop"
                  ELSE /\ year_i' = year_i
                       /\ botPc' = "lines"
    /\ UNCHANGED <<command, argUser, existing_years, missing_years,
                   successful_analyses, telegram_users, reply>>
    /\ UNCHANGED <<nvars, pvars, lvars, cvars, svars, avars, qvars, kvars, gvars, hvars>>

\* alltime_stats = await self._storage.reports.aggregated(username)
AlltimeAggregate ==
    /\ botPc = "aggregate"
    /\ botPc' = "aggregating"
    /\ AggCumulative(argUser)
    /\ UNCHANGED <<command, argUser, existing_years, missing_years, year_i, attempts,
                   successful_analyses, telegram_users, reply>>
    /\ UNCHANGED <<tvars, nvars, pvars, lvars, cvars, avars, qvars, kvars, gvars, hvars>>

\* a reply that renders whatever aggregated() handed back
alltime_reply_render(o) ==
    IF o.kind = "error" THEN Reply("error", "Error retrieving all-time stats")
    ELSE Reply("report", "alltime")

\* if not alltime_stats: .. ; return self._template.alltime(alltime_stats);
\* and the except clause of alltime_command
alltime_reply(o) ==
    IF o.kind = "error" THEN Reply("error", "Error retrieving all-time stats")
    ELSE IF o.kind = "none" THEN Reply("no_data", "No data could be retrieved")
    ELSE Reply("report", "alltime")

AlltimeReply ==
    /\ botPc = "aggregating"
    /\ aggPc = "done"
    /\ reply' = Some(alltime_reply(alltime_stats[1]))
    /\ botPc' = "done"
    /\ UNCHANGED <<command, argUser, existing_years, missing_years, year_i, attempts,
                   successful_analyses, telegram_users>>
    /\ UNCHANGED <<tvars, nvars, pvars, lvars, cvars, svars, avars, qvars, kvars, gvars, hvars>>

\* analyze_command over ProgressiveGitHubSource, step by step: the command is
\* given the year lnYear
ZInit ==
    /\ prPages \in PrPageLists
    /\ lnYear \in {FirstYear - 1, FirstYear, CurrentYear + 1}
    /\ lnPc = "idle"
    /\ total_added = 0
    /\ total_deleted = 0
    /\ pr_count = 0
    /\ pr_cursor = None
    /\ prRequests = <<>>
    /\ line_stats = None
    /\ prRaised = FALSE
    /\ lnCalls = <<>>
    /\ progPc = "idle"
    /\ base_stats = None
    /\ progress = <<>>
    /\ stats = None

\* a check that forgets the years to come
InvalidYear_past(year) == year < FirstYear

\* if year < 2008 or year > datetime.now().year
InvalidYear(year) == year < FirstYear \/ year > CurrentYear

\* the year check of analyze_command; a valid year takes it into its try block
AnalyzeStart ==
    /\ botPc = "idle"
    /\ command = "none"
    /\ command' = "analyze"
    /\ argUser' = "octocat"
    /\ IF InvalidYear(lnYear)
         THEN /\ reply' = Some(Reply("invalid_year", "Invalid year!"))
              /\ botPc' = "done"
         ELSE /\ reply' = reply
              /\ botPc' = "fetching"
    /\ UNCHANGED <<existing_years, missing_years, year_i, attempts, successful_analyses,
                   telegram_users>>
    /\ UNCHANGED <<tvars, nvars, pvars, lvars, cvars, svars, avars, qvars, kvars, gvars, hvars>>

\* a command that renders whatever it has at hand
analyze_reply_render(fetched, stored) == Reply("report", "yearly")

\* return self._template.yearly(stats), reached when the fetch and the two
\* stores returned; otherwise the string of the except clause
analyze_reply(fetched, stored) ==
    IF fetched /\ stored THEN Reply("report", "yearly")
    ELSE Reply("error", "Error analyzing")

\* the rest of the try block once progressive_source.contributions has
\* returned or raised: store(stats), store_user, the report; the except clause
AnalyzeFinish ==
    /\ botPc = "fetching"
    /\ progPc \in {"done", "raised"}
    /\ botPc' = "done"
    /\ IF progPc = "raised"
         THEN /\ reply' = Some(analyze_reply(FALSE, FALSE))
              /\ UNCHANGED <<reports, storeCalls, telegram_users>>
         ELSE LET res == store(reports, stats[1], now)
                  stored == res.outcome.kind = "data"
              IN  /\ reports' = res.table
                  /\ storeCalls' = Append(storeCalls,
                                          [arg |-> stats[1], before |-> reports,
                                           outcome |-> res.outcome])
                  /\ telegram_users' = IF stored
                                         THEN telegram_users \cup {<<1, argUser>>}
                                         ELSE telegram_users
                  /\ reply' = Some(analyze_reply(TRUE, stored))
    /\ UNCHANGED <<command, argUser, existing_years, missing_years, year_i, attempts,
                   successful_analyses>>
    /\ UNCHANGED <<stImpl, aggPc, aggUser, cumulative_result, snapshot_result,
                   alltime_stats>>
    /\ UNCHANGED <<tvars, nvars, pvars, lvars, cvars, avars, qvars, kvars, gvars, hvars>>

ZNext ==
    \/ AnalyzeStart
    \/ (botPc = "fetching" /\ ProgStart)
    \/ ProgBase
    \/ ProgBaseGiven
    \/ ProgCalc
    \/ PrFetch
    \/ ProgReturn
    \/ AnalyzeFinish

\* no cancellation was asked for
KIdle == cancelled_at = None

\* the caller asks a running all-time backfill to stop; nothing in
\* alltime_command, commits() or _check_rate_limit reads such a request
RequestCancel ==
    /\ command = "alltime"
    /\ botPc = "loop"
    /\ cancelled_at = None
    /\ cancelled_at' = Some(Len(attempts))
    /\ UNCHANGED <<tvars, nvars, pvars, lvars, cvars, svars, bvars, avars, qvars, gvars, hvars>>

BNext ==
    \/ analyze_command
    \/ alltime_command
    \/ AlltimeAttempt
    \/ AlltimeAggregate
    \/ AggSnapshot
    \/ AggLanguages
    \/ AlltimeReply

(***************************************************************************)
(* GitHubAnalyzer.get_user_contributions: the line calculation             *)
(***************************************************************************)
\* int(pr["createdAt"][:4])
YearPrefix ==
    ("2024-01-10T08:00:00Z" :> 2024) @@ ("2023-12-20T09:00:00Z" :> 2023)
        @@ ("2023-05-01T00:00:00Z" :> 2023) @@ ("2024-03-01T00:00:00Z" :> 2024)

\* the lists fetch_all_commits_for_year returns
AnCommitLists == UNION { [1..n -> CommitNodeSet] : n \in 0..MaxAnCommits }

\* the lists fetch_all_pull_requests returns
AnPrLists == UNION { [1..n -> PrNodeSet] : n \in 0..MaxAnPrs }

\* ORDER BY created_at DESC
RECURSIVE NewestFirst(_)
NewestFirst(S) ==
    IF S = {} THEN <<>>
    ELSE LET newest == CHOOSE pr \in S :
                          \A other \in S : CreatedRank[other.createdAt] <= CreatedRank[pr.createdAt]
         IN  <<newest>> \o NewestFirst(S \ {newest})

\* get_cached_prs(username)
get_cached_prs(table) == NewestFirst(table)

\* cache_prs(username, prs): one row per pr_id, which is made of the three fields
cache_prs(table, prs) == table \cup { prs[i] : i \in 1..Len(prs) }

\* the loop over the commits: lines_added += commit["additions"] or 0
RECURSIVE SumCommits(_)
SumCommits(list) ==
    IF list = <<>> THEN [lines_added |-> 0, lines_deleted |-> 0]
    ELSE LET rest == SumCommits(Tail(list))
         IN  [lines_added |-> OrZero(Head(list).additions) + rest.lines_added,
              lines_deleted |-> OrZero(Head(list).deletions) + rest.lines_deleted]

\* the loop over the pull requests: lines_added += pr["additions"]; adding
\* None to an int raises TypeError
RECURSIVE SumPrs(_, _)
SumPrs(list, year) ==
    IF list = <<>> THEN [raised |-> FALSE, lines_added |-> 0, lines_deleted |-> 0]
    ELSE LET pr == Head(list)
             rest == SumPrs(Tail(list), year)
         IN  IF YearPrefix[pr.createdAt] # year THEN rest
             ELSE IF pr.additions = None \/ pr.deletions = None
               THEN [raised |-> TRUE, lines_added |-> 0, lines_deleted |-> 0]
             ELSE IF rest.raised THEN rest
             ELSE [raised |-> FALSE,
                   lines_added |-> pr.additions[1] + rest.lines_added,
                   lines_deleted |-> pr.deletions[1] + rest.lines_deleted]

AIdle ==
    /\ anPc = "idle"
    /\ anYear = 2024
    /\ anDb = FALSE
    /\ github_prs = <<>>
    /\ pr_cache = {}
    /\ use_commit_data = FALSE
    /\ anCommits = <<>>
    /\ all_prs = <<>>
    /\ anAdded = 0
    /\ anDeleted = 0
    /\ anRaisedAt = ""
    /\ anResult = None
    /\ progress_callback = None

AInit ==
    /\ anPc = "idle"
    /\ anYear \in YearSet
    /\ anDb \in BOOLEAN
    /\ github_prs \in AnPrLists
    /\ pr_cache \in SUBSET PrNodeSet
    /\ use_commit_data = FALSE
    /\ anCommits = <<>>
    /\ all_prs = <<>>
    /\ anAdded = 0
    /\ anDeleted = 0
    /\ anRaisedAt = ""
    /\ anResult = None
    /\ progress_callback \in {None, Some("progress_update")}

\* the end of get_user_contributions once the lines are summed: the
\* ContributionStats it builds, or the TypeError of building it
AnReturn(added, deleted) ==
    LET built == ContributionStats(SnapshotKwargs("octocat", anYear, added, deleted))
    IN  /\ anAdded' = added
        /\ anDeleted' = deleted
        /\ anResult' = Some(built)
        /\ anRaisedAt' = IF built.kind = "error" THEN "ContributionStats" ELSE ""
        /\ anPc' = "done"

\* get_user_contributions is called: fetch_year_contributions returns or raises
get_user_contributions ==
    /\ anPc = "idle"
    /\ \E fetched \in BOOLEAN :
         IF fetched
           THEN anPc' = "commits" /\ UNCHANGED <<anRaisedAt, anResult>>
           ELSE /\ anPc' = "done"
                /\ anRaisedAt' = "fetch_year_contributions"
                /\ anResult' = Some(Raise("GitHubGraphQLError", "query failed", ""))
    /\ UNCHANGED <<anYear, anDb, github_prs, pr_cache, use_commit_data, anCommits, all_prs, anAdded,
                   anDeleted, progress_callback>>
    /\ UNCHANGED <<tvars, nvars, pvars, lvars, cvars, svars, bvars, qvars, kvars, gvars, hvars>>

\* fetch_all_commits_for_year returns a list or raises; with commits at hand
\* the lines are summed over them, otherwise the pull requests are asked for
AnFetchCommits ==
    /\ anPc = "commits"
    /\ \E got \in {None} \cup { Some(l) : l \in AnCommitLists } :
         /\ use_commit_data' = (got # None)
         /\ anCommits' = IF got = None THEN <<>> ELSE got[1]
         /\ IF got # None /\ got[1] # <<>>
              THEN AnReturn(SumCommits(got[1]).lines_added,
                            SumCommits(got[1]).lines_deleted)
              ELSE /\ anPc' = "prs"
                   /\ UNCHANGED <<anAdded, anDeleted, anRaisedAt, anResult>>
    /\ UNCHANGED <<anYear, anDb, github_prs, pr_cache, all_prs, progress_callback>>
    /\ UNCHANGED <<tvars, nvars, pvars, lvars, cvars, svars, bvars, qvars, kvars, gvars, hvars>>

\* the pull requests are read from the cache or fetched (and cached), and
\* the lines are summed over those created in the year
AnSumPrs(list) ==
    LET summed == SumPrs(list, anYear)
    IN  /\ all_prs' = list
        /\ IF summed.raised
             THEN /\ anPc' = "done"
                  /\ anRaisedAt' = "sum"
                  /\ anResult' = Some(Raise("TypeError",
                                     "unsupported operand type(s) for +=", ""))
                  /\ UNCHANGED <<anAdded, anDeleted>>
             ELSE AnReturn(summed.lines_added, summed.lines_deleted)

AnFetchPrs ==
    /\ anPc = "prs"
    /\ IF anDb /\ pr_cache # {}
         THEN AnSumPrs(get_cached_prs(pr_cache)) /\ UNCHANGED pr_cache
         ELSE \E got \in {None, Some(github_prs)} :
                IF got = None
                  THEN /\ anPc' = "done"
                       /\ anRaisedAt' = "fetch_all_pull_requests"
                       /\ anResult' = Some(Raise("GitHubGraphQLError", "query failed", ""))
                       /\ UNCHANGED <<pr_cache, all_prs, anAdded, anDeleted>>
                  ELSE /\ pr_cache' = IF anDb THEN cache_prs(pr_cache, got[1])
                                      ELSE pr_cache
                       /\ AnSumPrs(got[1])
    /\ UNCHANGED <<anYear, anDb, github_prs, use_commit_data, anCommits, progress_callback>>
    /\ UNCHANGED <<tvars, nvars, pvars, lvars, cvars, svars, bvars, qvars, kvars, gvars, hvars>>

\* "await progress_callback(..)" before the commits are fetched (310-313) and
\* before the pull requests are asked for (333-334, 360-361): the callback
\* edits a Telegram message and raises when the edit fails; the except clauses
\* of get_user_contributions re-raise
AnReportFails ==
    /\ anPc \in {"commits", "prs"}
    /\ progress_callback # None
    /\ anPc' = "done"
    /\ anRaisedAt' = "progress_callback"
    /\ anResult' = Some(Raise("TelegramError", "Message can't be edited", ""))
    /\ UNCHANGED <<anYear, anDb, github_prs, pr_cache, use_commit_data, anCommits, all_prs, anAdded,
                   anDeleted, progress_callback>>
    /\ UNCHANGED <<tvars, nvars, pvars, lvars, cvars, svars, bvars, qvars, kvars, gvars, hvars>>

ANext ==
    \/ get_user_contributions
    \/ AnFetchCommits
    \/ AnFetchPrs
    \/ AnReportFails

(***************************************************************************)
(* The calls of query() made by commits(), each call in two steps: the     *)
(* status check with the POST, and the answer                              *)
(***************************************************************************)
\* the histories whose pages hold no commit
EmptyPages == \A i \in DOMAIN repos : \A p \in DOMAIN repos[i] : repos[i][p] = <<>>

QIdle ==
    /\ sqPc = "ready"
    /\ inflight = 0
    /\ sqReads = <<>>
    /\ sqResponses = <<>>

\* a walk that starts the next call without awaiting the one it made
Awaited_gather(pc) == pc \in {"ready", "awaiting"}

\* "await self._client.query(..)": the coroutine goes on to its next call only
\* when the call it made has returned
Awaited(pc) == pc = "ready"

\* query(): _check_rate_limit reads the status and sleeps if it is low, then
\* the POST is issued
SeqIssue ==
    /\ cmPc \in {"repos", "walk"}
    /\ Awaited(sqPc)
    /\ sqPc' = "awaiting"
    /\ inflight' = inflight + 1
    /\ sqReads' = Append(sqReads, rate_limit)
    /\ now' = IF QueryWaits(session)
                THEN now + seconds_until_reset(rate_limit[1], now) + safety_buffer
                ELSE now
    /\ UNCHANGED sqResponses
    /\ UNCHANGED <<impl, session, rate_limit, tpc, rlAtStart, startedAt, slept, wakeAt,
                   posts, sentAt, resp, outcome, prevFail>>
    /\ UNCHANGED <<nvars, pvars, lvars, cvars, svars, bvars, avars, kvars, gvars, hvars>>

\* the answer of the repository query: commits() goes on as in ReposQuery
SeqReposAnswer(r) ==
    LET ok == IsPage(QueryOutcome(session, r))
    IN  /\ session' = IF ~ok \/ repos = <<>> THEN SessionExited(session) ELSE session
        /\ IF ~ok THEN cmPc' = "raised" /\ UNCHANGED <<repo_index, cmResult>>
           ELSE IF repos = <<>>
             THEN cmPc' = "done" /\ cmResult' = Some(<<>>) /\ UNCHANGED repo_index
           ELSE cmPc' = "walk" /\ repo_index' = 1 /\ UNCHANGED cmResult
        /\ UNCHANGED <<repos, commit_cursor, commits, all_commits, cmFailed, cmWalked,
                     cmRequests>>

\* the answer of a history page: _fetch_repo_commits goes on as in RepoFetch
SeqRepoAnswer(r) ==
    LET pageNo == IF commit_cursor = None THEN 1 ELSE commit_cursor[1] + 1
        ok == IsPage(QueryOutcome(session, r))
        missing == repos[repo_index] = <<>>
        got == IF ~ok THEN ReturnedOnError(commits)
               ELSE IF missing THEN commits
               ELSE commits \o CommitsOfPage(repo_index, pageNo)
        ends == ~ok \/ missing \/ pageNo >= Len(repos[repo_index])
        returns == ends /\ repo_index >= Len(repos)
    IN  /\ session' = IF returns THEN SessionExited(session) ELSE session
        /\ cmFailed' = IF ok THEN cmFailed ELSE cmFailed \cup {repo_index}
        /\ cmWalked' = IF commit_cursor = None THEN Append(cmWalked, repo_index)
                       ELSE cmWalked
        /\ cmRequests' = Append(cmRequests, <<repo_index, commit_cursor>>)
        /\ IF ~ends
             THEN /\ commits' = got
                  /\ commit_cursor' = cursor_after(commit_cursor,
                                           WalkPageInfo(repos[repo_index], pageNo))
                  /\ UNCHANGED <<all_commits, repo_index, cmPc, cmResult>>
             ELSE /\ commits' = <<>>
                  /\ commit_cursor' = None
                  /\ all_commits' = all_commits \o got
                  /\ IF returns
                       THEN /\ cmResult' = Some(all_commits \o got)
                            /\ cmPc' = "done"
                            /\ repo_index' = repo_index
                       ELSE /\ cmResult' = cmResult
                            /\ cmPc' = "walk"
                            /\ repo_index' = repo_index + 1
        /\ UNCHANGED repos

\* the answer arrives: its quota headers are applied to the status, query()
\* returns or raises, and the awaiting coroutine goes on
SeqReceive ==
    /\ sqPc = "awaiting"
    /\ inflight > 0
    /\ cmPc \in {"repos", "walk"}
    /\ \E r \in WalkResponses :
         /\ rate_limit' = IF r # None
                            THEN RateLimitAfter(impl, rate_limit, r[1].headers)
                            ELSE rate_limit
         /\ sqResponses' = Append(sqResponses, r)
         /\ IF cmPc = "repos" THEN SeqReposAnswer(r) ELSE SeqRepoAnswer(r)
    /\ inflight' = inflight - 1
    /\ sqPc' = "ready"
    /\ UNCHANGED sqReads
    /\ UNCHANGED <<impl, now, tpc, rlAtStart, startedAt, slept, wakeAt, posts, sentAt,
                   resp, outcome, prevFail>>
    /\ UNCHANGED <<nvars, pvars, lvars, svars, bvars, avars, kvars, gvars, hvars>>

QNext ==
    \/ CommitsStart
    \/ SeqIssue
    \/ SeqReceive

\* ---- operations of one GitHubContributionSource sharing its GraphQLClient ----

MaxOps == 2

MaxOpQueries == 2

Ops == 1..MaxOps

HIdle ==
    /\ opPc = <<>>
    /\ client_session = 0
    /\ sessions_opened = 0
    /\ sessions_closed = {}
    /\ opIssued = <<>>

\* GraphQLClient(github_config) as run() builds it, handed to the one source
\* every command uses; no operation has started
HInit ==
    /\ opPc = [o \in Ops |-> "idle"]
    /\ client_session = 0
    /\ sessions_opened = 0
    /\ sessions_closed = {}
    /\ opIssued = <<>>

\* the query() calls operation o has made
IssuedBy(o) == SelectSeq(opIssued, LAMBDA q : q.op = o)

\* "async with self._client as client": __aenter__ stores a new session in
\* _session, whatever _session held
OpEnter(o) ==
    /\ opPc[o] = "idle"
    /\ sessions_opened' = sessions_opened + 1
    /\ client_session' = sessions_opened + 1
    /\ opPc' = [opPc EXCEPT ![o] = "entered"]
    /\ UNCHANGED <<sessions_closed, opIssued>>
    /\ UNCHANGED <<tvars, nvars, pvars, lvars, cvars, svars, bvars, avars, qvars, kvars, gvars>>

\* client.query(...): the test of _session, then _session.post(...); a closed
\* session refuses the request and the exception leaves the operation's body
OpQuery(o) ==
    /\ opPc[o] = "entered"
    /\ Len(IssuedBy(o)) < MaxOpQueries
    /\ client_session # 0
    /\ opIssued' = Append(opIssued, [op |-> o, session |-> client_session,
                                     closed |-> client_session \in sessions_closed])
    /\ opPc' = [opPc EXCEPT ![o] = IF client_session \in sessions_closed
                                   THEN "raised" ELSE "awaiting"]
    /\ UNCHANGED <<client_session, sessions_opened, sessions_closed>>
    /\ UNCHANGED <<tvars, nvars, pvars, lvars, cvars, svars, bvars, avars, qvars, kvars, gvars>>

\* the awaited request ends: with an answer, or with an exception
OpAnswer(o) ==
    /\ opPc[o] = "awaiting"
    /\ \E ok \in BOOLEAN :
         opPc' = [opPc EXCEPT ![o] = IF ok THEN "entered" ELSE "raised"]
    /\ UNCHANGED <<client_session, sessions_opened, sessions_closed, opIssued>>
    /\ UNCHANGED <<tvars, nvars, pvars, lvars, cvars, svars, bvars, avars, qvars, kvars, gvars>>

\* the end of the "async with" block: __aexit__ closes whatever _session holds
OpExit(o) ==
    /\ opPc[o] \in {"entered", "raised"}
    /\ opPc[o] = "entered" => Len(IssuedBy(o)) > 0
    /\ sessions_closed' = IF client_session # 0
                          THEN sessions_closed \cup {client_session}
                          ELSE sessions_closed
    /\ opPc' = [opPc EXCEPT ![o] = "left"]
    /\ UNCHANGED <<client_session, sessions_opened, opIssued>>
    /\ UNCHANGED <<tvars, nvars, pvars, lvars, cvars, svars, bvars, avars, qvars, kvars, gvars>>

HNext ==
    \/ \E o \in Ops : OpEnter(o)
    \/ \E o \in Ops : OpQuery(o)
    \/ \E o \in Ops : OpAnswer(o)
    \/ \E o \in Ops : OpExit(o)


Init == TInit /\ NIdle /\ PIdle /\ LIdle /\ CIdle /\ SIdle /\ BIdle /\ AIdle /\ QIdle /\ KIdle /\ GIdle /\ HIdle

Spec == Init /\ [][TNext]_vars

InitRateLimit == TIdle /\ NIdle /\ PIdle /\ LIdle /\ CIdle /\ SIdle /\ BIdle /\ AIdle /\ QIdle /\ KIdle /\ GIdle /\ HIdle

InitPager == TIdleGQ /\ NIdle /\ PInit /\ LIdle /\ CIdle /\ SIdle /\ BIdle /\ AIdle /\ QIdle /\ KIdle /\ GIdle /\ HIdle

InitLines == TIdle /\ NIdle /\ PIdle /\ LInit /\ CIdle /\ SIdle /\ BIdle /\ AIdle /\ QIdle /\ KIdle /\ GIdle /\ HIdle

InitCommits == TIdle /\ NIdle /\ PIdle /\ LIdle /\ CInit /\ SIdle /\ BIdle /\ AIdle /\ QIdle /\ KIdle /\ GIdle /\ HIdle

\* a caller that awaits calculate_line_stats and then commits(); the content of
\* the pages is left out: pull-request pages and history pages are empty
WInit ==
    /\ LInit
    /\ CInit
    /\ lnYear = 2024
    /\ \A k \in 1..Len(prPages) : prPages[k] = <<>>
    /\ \A i \in 1..Len(repos) : \A p \in 1..Len(repos[i]) : repos[i][p] = <<>>

InitWalks == TIdle /\ NIdle /\ PIdle /\ WInit /\ SIdle /\ BIdle /\ AIdle /\ QIdle /\ KIdle /\ GIdle /\ HIdle

WNext ==
    \/ calculate_line_stats
    \/ PrFetch
    \/ (lnPc = "done" /\ CommitsStart)
    \/ ReposQuery
    \/ RepoFetch

SpecWalks == InitWalks /\ [][WNext]_vars

InitStorage == TIdle /\ NIdle /\ PIdle /\ LIdle /\ CIdle /\ SInit /\ BIdle /\ AIdle /\ QIdle /\ KIdle /\ GIdle /\ HIdle

SpecStorage == InitStorage /\ [][SNext]_vars

BInit ==
    /\ reports \in { t \in TableSet : \A k \in DOMAIN t : t[k].total_commits = 100 }
    /\ stImpl = "PostgreSQLReportStorage"
    /\ storeCalls = <<>>
    /\ aggPc = "idle"
    /\ aggUser = ""
    /\ cumulative_result = None
    /\ snapshot_result = None
    /\ alltime_stats = None

InitBot == TIdle /\ NIdle /\ PIdle /\ LIdle /\ CIdle /\ BInit /\ BIdle /\ AIdle /\ QIdle /\ KIdle /\ GIdle /\ HIdle

SpecBot == InitBot /\ [][BNext]_vars

\* the commands of the bot and a caller who may ask the backfill to stop
KNext ==
    \/ BNext
    \/ RequestCancel

SpecCancel == InitBot /\ [][KNext]_vars

InitAnalyze ==
    TIdle /\ NIdle /\ PIdle /\ ZInit /\ CIdle /\ SIdle /\ BIdle /\ AIdle /\ QIdle /\ KIdle /\ GIdle /\ HIdle

SpecAnalyze == InitAnalyze /\ [][ZNext]_vars

InitAnalyzer == TIdle /\ NIdle /\ PIdle /\ LIdle /\ CIdle /\ SIdle /\ BIdle /\ AInit /\ QIdle /\ KIdle /\ GIdle /\ HIdle

SpecAnalyzer == InitAnalyzer /\ [][ANext]_vars

InitSequential ==
    TIdle /\ NIdle /\ PIdle /\ LIdle /\ CInit /\ EmptyPages /\ SIdle /\ BIdle /\ AIdle /\ QIdle /\ KIdle /\ GIdle /\ HIdle

SpecSequential == InitSequential /\ [][QNext]_vars

SpecCommits == InitCommits /\ [][CNext]_vars

SpecLines == InitLines /\ [][LNext]_vars

SpecProgressive == InitLines /\ [][GNext]_vars

InitLanguages ==
    TIdle /\ NIdle /\ PIdle /\ LIdle /\ CIdle /\ SIdle /\ BIdle /\ AIdle /\ QIdle /\ KIdle /\ GInit /\ HIdle

SpecLanguages == InitLanguages /\ [][FetchContributions]_vars

InitShared ==
    TIdle /\ NIdle /\ PIdle /\ LIdle /\ CIdle /\ SIdle /\ BIdle /\ AIdle /\ QIdle /\ KIdle /\ GIdle /\ HInit

SpecShared == InitShared /\ [][HNext]_vars

SpecPager == InitPager /\ [][PNext]_vars

SpecRateLimit == InitRateLimit /\ [][NeedsWaitCall]_vars

(***************************************************************************)
(* Properties of the transport                                             *)
(***************************************************************************)
Checked == tpc \in {"sleep", "post", "inflight", "done"}

StatusLow(rl) == rl # None /\ rl[1].remaining < min_remaining_threshold

\* C2: a call suspends before its POST exactly when a status is known and
\* its remaining is below the threshold; the suspension lasts
\* seconds_until_reset + safety_buffer, which is never negative, and is over
\* when the request is sent; with no status the request is sent at once.
C2_SuspendIffBelowThreshold ==
    Checked =>
        /\ (slept # None) <=> StatusLow(rlAtStart)
        /\ slept # None =>
              /\ slept[1] >= 0
              /\ slept[1] = (IF rlAtStart[1].reset_at > startedAt
                               THEN rlAtStart[1].reset_at - startedAt ELSE 0)
                             + safety_buffer
              /\ sentAt # None => sentAt[1] >= startedAt + slept[1]
        /\ (rlAtStart = None /\ sentAt # None) => sentAt[1] = startedAt

C2_Witness ==
    /\ tpc = "done"
    /\ slept # None
    /\ sentAt # None
    /\ rlAtStart[1].reset_at > startedAt

NoQuotaHeaders(r) == DOMAIN r.headers \cap QuotaKeys = {}

\* C4: a response carrying none of the four x-ratelimit-* headers leaves the
\* stored rate-limit status as it was before the call.
C4_StatusKeptWithoutHeaders ==
    (tpc = "done" /\ resp # None /\ NoQuotaHeaders(resp[1])) => rate_limit = rlAtStart

ListedOutcome(o) ==
    \/ o.kind = "data"
    \/ o.cls = "aiohttp.ClientError"
    \/ o.msg \in {"Authentication failed. Check your token.",
                   "Forbidden. You may have exceeded rate limits.",
                   "HTTP", "Failed to parse JSON response", "GraphQL errors",
                   "Request failed"}

\* C5: one call of query() issues exactly one POST whatever the response
\* (success, 401, 403, other status >= 400, malformed JSON, GraphQL errors,
\* network failure), and never more than one.
C5_ExactlyOnePost ==
    /\ posts <= 1
    /\ (tpc = "done" /\ ListedOutcome(outcome[1])) => posts = 1

C5_Witness ==
    /\ tpc = "done"
    /\ posts = 1
    /\ outcome[1].kind = "error"
    /\ resp # None
    /\ resp[1].status = 403

HasErrorsArray(r) == r.body.json # None /\ r.body.json[1].errors # None

\* the messages of the bodies of BodySet, joined as the specification says
ConcatenatedMessages(r) ==
    IF r.body.text = "{errors:[m1],data}" THEN "bad field"
    ELSE IF r.body.text = "{errors:[m1,?]}" THEN "bad field; Unknown error"
    ELSE ""

\* C6 as stated: whenever the body has a top-level errors array the call
\* fails with an error carrying the concatenated messages and returns no data.
C6_ErrorsArrayGivesGraphQLError ==
    (tpc = "done" /\ resp # None /\ HasErrorsArray(resp[1])) =>
        /\ outcome[1].kind = "error"
        /\ outcome[1].data = None
        /\ outcome[1].msg = "GraphQL errors"
        /\ outcome[1].detail = ConcatenatedMessages(resp[1])

\* C6 amended: whenever the body has a top-level errors array the call fails
\* and returns no data, even if the body has a data member; the error carries
\* the concatenated messages when the status is below 400.
C6_ErrorsArrayFailsCall ==
    (tpc = "done" /\ resp # None /\ HasErrorsArray(resp[1])) =>
        /\ outcome[1].kind = "error"
        /\ outcome[1].data = None
        /\ resp[1].status < 400 =>
              /\ outcome[1].msg = "GraphQL errors"
              /\ outcome[1].detail = ConcatenatedMessages(resp[1])

C6_Witness ==
    /\ tpc = "done"
    /\ resp # None
    /\ resp[1].status = 200
    /\ resp[1].body.text = "{errors:[m1],data}"
    /\ outcome[1].detail = "bad field"

\* the error of each failure, in the order the claim gives
MappedError(o, r) ==
    IF r = None THEN o.cls = "aiohttp.ClientError" \/ o.msg = "Request failed"
    ELSE IF r[1].status = 401 THEN o.msg = "Authentication failed. Check your token."
    ELSE IF r[1].status = 403 THEN o.msg = "Forbidden. You may have exceeded rate limits."
    ELSE IF r[1].status >= 400
      THEN o.msg = "HTTP" /\ o.detail = ToString(r[1].status) \o ": " \o r[1].body.text
    ELSE IF r[1].body.json = None THEN o.msg = "Failed to parse JSON response"
    ELSE TRUE

Precedence ==
    (tpc = "done" /\ posts = 1) =>
        /\ MappedError(outcome[1], resp)
        /\ (resp = None \/ resp[1].status >= 400 \/ resp[1].body.json = None)
              => (outcome[1].kind = "error" /\ outcome[1].data = None)

C3_NeedsWaitIffRemainingBelow ==
    nwAnswer # None =>
        /\ nwAnswer[1] <=>
              (nwStatus[1].remaining < (IF nwThreshold = None THEN 100 ELSE nwThreshold[1]))
        /\ (nwPrev # None
              /\ nwPrev[1].remaining = nwStatus[1].remaining
              /\ nwPrev[1].threshold = (IF nwThreshold = None THEN 100 ELSE nwThreshold[1]))
             => nwPrev[1].answer = nwAnswer[1]

C3_Witness ==
    /\ nwAnswer = Some(FALSE)
    /\ nwThreshold = None
    /\ nwStatus[1].remaining = 100
    /\ nwStatus[1].limit = 0
    /\ nwPrev # None
    /\ nwPrev[1].remaining = 100
    /\ nwPrev[1].threshold = 100

(***************************************************************************)
(* Properties of the pager                                                 *)
(***************************************************************************)
\* hasNextPage is true for the first N-1 pages and false for the N-th
FiniteCollection ==
    \A k \in 1..Len(pgPages) : pgPages[k].hasNextPage <=> (k < Len(pgPages))

\* C1: over N pages, hasNextPage true on the first N-1 and false on the N-th,
\* the pager run without a page cap issues exactly N requests and yields
\* exactly N batches, wherever the collection lies in the response; the first
\* request has no cursor and request k+1 carries the endCursor of page k.
C1_PagerWalksEveryPage ==
    (pgPc = "done" /\ max_pages = None /\ FiniteCollection) =>
        /\ Len(pgRequests) = Len(pgPages)
        /\ Len(pgBatches) = Len(pgPages)
        /\ pgRequests[1] = None
        /\ \A k \in 1..(Len(pgPages) - 1) : pgRequests[k + 1] = pgPages[k].endCursor

(***************************************************************************)
(* Properties of the line calculation                                      *)
(***************************************************************************)
RECURSIVE Flatten(_)
Flatten(pages) == IF pages = <<>> THEN <<>> ELSE Head(pages) \o Flatten(Tail(pages))

\* the pull requests created in year y or merged in year y
Qualifying(y) ==
    SelectSeq(Flatten(prPages),
              LAMBDA n : \/ IsoYear[n.createdAt] = y
                         \/ (n.mergedAt # None /\ IsoYear[n.mergedAt[1]] = y))

RECURSIVE Total(_, _)
Total(nodes, field) ==
    IF nodes = <<>> THEN 0
    ELSE (IF Head(nodes)[field] = None THEN 0 ELSE Head(nodes)[field][1])
         + Total(Tail(nodes), field)

\* C8: when every page is fetched, the primary strategy returns the sums of
\* additions and deletions over exactly the pull requests created in the year
\* or merged in the year, each counted once, and their number as pr_count.
C8_PrSumsOverQualifying ==
    (lnPc = "done" /\ ~prRaised) =>
        /\ line_stats[1].lines_added = Total(Qualifying(lnYear), "additions")
        /\ line_stats[1].lines_deleted = Total(Qualifying(lnYear), "deletions")
        /\ line_stats[1].pr_count = Len(Qualifying(lnYear))

C8_Witness ==
    /\ lnPc = "done"
    /\ ~prRaised
    /\ lnYear = 2024
    /\ Len(prPages) = 2
    /\ Len(prPages[1]) = 1
    /\ prPages[1][1].createdAt = "2024-01-10T08:00:00Z"
    /\ Len(prPages[2]) = 1
    /\ prPages[2][1].createdAt = "2023-12-20T09:00:00Z"
    /\ line_stats = Some(LineStats(115, 23, 2))

InSeq(x, seq) == \E i \in 1..Len(seq) : seq[i] = x

\* C9: the commit-walk fallback is invoked exactly when the pull-request
\* strategy yields no qualifying pull request or raises, only after that
\* strategy has finished, and the result then carries the method tag "commits".
C9_FallbackIffPrimaryEmpty ==
    (lnPc = "done" /\ progPc \in {"idle", "done"}) =>
        /\ InSeq("commits", lnCalls) <=> (prRaised \/ Len(Qualifying(lnYear)) = 0)
        /\ InSeq("commits", lnCalls) =>
              /\ lnCalls = <<"_calculate_lines_from_prs", "commits">>
              /\ "method" \in DOMAIN line_stats[1]
              /\ line_stats[1]["method"] = "commits"

(***************************************************************************)
(* Properties of the commit walk                                           *)
(***************************************************************************)
\* the commits of repository i in a list of Commit objects
OfRepo(list, i) == SelectSeq(list, LAMBDA c : c.oid[1] = i)

RECURSIVE AllCommitsOf(_, _)
AllCommitsOf(i, p) ==
    IF p > Len(repos[i]) THEN <<>> ELSE CommitsOfPage(i, p) \o AllCommitsOf(i, p + 1)

\* C10: when the history query of a repository raises on any of its pages,
\* commits() still returns a list; the list has every commit of each
\* repository whose queries succeeded and no commit of a repository whose
\* query raised, and every repository of the breakdown is walked.
C10_FailedRepoSkipped ==
    (/\ cmPc \in {"done", "raised"}
     /\ cmFailed # {}
     /\ \E a \in 1..Len(repos) : a \notin cmFailed /\ AllCommitsOf(a, 1) # <<>>) =>
        /\ cmPc = "done"
        /\ cmResult # None
        /\ cmWalked = [i \in 1..Len(repos) |-> i]
        /\ \A i \in 1..Len(repos) :
              OfRepo(cmResult[1], i) = (IF i \in cmFailed THEN <<>> ELSE AllCommitsOf(i, 1))

\* the method tag of a line delta, when it carries one
MethodTag(delta) ==
    IF "calculation_method" \in DOMAIN delta THEN Some(delta.calculation_method)
    ELSE None

\* C11: when the line calculation fails it does not raise; it returns a delta
\* with 0 lines added and 0 lines deleted whose method tag is "error".
C11_FailureTaggedError ==
    (lnPc = "done" /\ prRaised) =>
        /\ line_stats # None
        /\ line_stats[1].lines_added = 0
        /\ line_stats[1].lines_deleted = 0
        /\ MethodTag(line_stats[1]) = Some("error")

(***************************************************************************)
(* Properties of the stored reports and their aggregate                    *)
(***************************************************************************)
\* the years for which the table holds a report of the user
Stored(username) == { y \in ReportYears : <<username, y>> \in DOMAIN reports }

\* the total of a column over the reports of the user, year by year
ColumnTotal(username, column) ==
    LET upTo[y \in (FirstYear - 1)..CurrentYear] ==
            IF y < FirstYear THEN 0
            ELSE upTo[y - 1] + (IF y \in Stored(username)
                                  THEN reports[<<username, y>>][column] ELSE 0)
    IN  upTo[CurrentYear]

Aggregated == aggPc = "done" /\ Stored(aggUser) # {}

\* C14: for a user with at least one stored report, the aggregate has every
\* cumulative field equal to the sum of that field over the reports,
\* total_years equal to their number, first_year the least and last_year the
\* greatest year.
C14_AggregateSums ==
    Aggregated =>
        /\ alltime_stats[1].kind = "data"
        /\ \A c \in SummedColumns :
              alltime_stats[1].data[1][c] = ColumnTotal(aggUser, c)
        /\ alltime_stats[1].data[1].total_years = Cardinality(Stored(aggUser))
        /\ \A y \in Stored(aggUser) :
              /\ alltime_stats[1].data[1].first_year <= y
              /\ alltime_stats[1].data[1].last_year >= y
        /\ alltime_stats[1].data[1].first_year \in Stored(aggUser)
        /\ alltime_stats[1].data[1].last_year \in Stored(aggUser)

\* the report of the user's latest stored year
LatestReport(username) ==
    reports[<<username, CHOOSE y \in Stored(username) :
                           \A z \in Stored(username) : z <= y>>]

\* C15: the aggregate's repositories_contributed, starred_repos, followers,
\* following and public_repos are the values of the report with the greatest
\* year.
C15_PointInTimeFromLatestYear ==
    Aggregated =>
        /\ alltime_stats[1].kind = "data"
        /\ \A c \in SnapshotColumns :
              alltime_stats[1].data[1][c] = LatestReport(aggUser)[c]

\* the total of a language's counts over the reports of the user, year by
\* year; a report without the language adds nothing
LanguageTotal(username, lang) ==
    LET counted(y) ==
            /\ y \in Stored(username)
            /\ lang \in DOMAIN reports[<<username, y>>].languages
        upTo[y \in (FirstYear - 1)..CurrentYear] ==
            IF y < FirstYear THEN 0
            ELSE upTo[y - 1] + (IF counted(y)
                                  THEN reports[<<username, y>>].languages[lang]
                                  ELSE 0)
    IN  upTo[CurrentYear]

\* the languages that some report of the user counts
LanguagesOf(username) ==
    UNION { DOMAIN reports[<<username, y>>].languages : y \in Stored(username) }

\* C16: the aggregate's language histogram has exactly the languages that
\* appear in some report, each with the sum of its counts over the reports
\* that contain it.
C16_LanguagesMerged ==
    Aggregated =>
        /\ alltime_stats[1].kind = "data"
        /\ DOMAIN alltime_stats[1].data[1].languages = LanguagesOf(aggUser)
        /\ \A l \in LanguagesOf(aggUser) :
              alltime_stats[1].data[1].languages[l] = LanguageTotal(aggUser, l)

\* the year a ContributionStats stands for: its property year
YearOf(snapshot) == snapshot.date_range.start_date[1]

\* C19: a store() call leaves the table with one report for the (username,
\* year) of its argument, holding the argument's values, and leaves the
\* reports of every other (username, year) as they were.
C19_StoreUpserts ==
    (storeCalls # <<>>) =>
        LET call == storeCalls[Len(storeCalls)]
            key == <<call.arg.username, YearOf(call.arg)>>
        IN  /\ call.outcome.kind = "data"
            /\ key \in DOMAIN reports
            /\ \A c \in ValueColumns : reports[key][c] = call.arg[c]
            /\ DOMAIN reports = DOMAIN call.before \cup {key}
            /\ \A k \in DOMAIN call.before : k # key => reports[k] = call.before[k]

(***************************************************************************)
(* Properties of the commands                                              *)
(***************************************************************************)
\* the aggregate query of an attempt failed: no answer, an error status,
\* GraphQL errors, or data without the user
QueryFailed(a) == a.queried.kind = "error" \/ a.queried.data # Some("D")

\* C13: when the aggregate query of a period fails, contributions() raises a
\* fetch failure, hands back no snapshot, and the command stores no report.
C13_FailedFetchRaises ==
    \A i \in 1..Len(attempts) :
        QueryFailed(attempts[i]) =>
            /\ attempts[i].outcome.kind = "error"
            /\ attempts[i].outcome.cls = "GitHubAPIError"
            /\ attempts[i].outcome.data = None
            /\ storeCalls = <<>>
            /\ (command = "analyze" /\ botPc = "done") =>
                  reply # None /\ reply[1].kind = "error"

C13_Witness ==
    /\ command = "analyze"
    /\ botPc = "done"
    /\ Len(attempts) = 1
    /\ attempts[1].response # None
    /\ attempts[1].response[1].status = 200
    /\ attempts[1].queried.kind = "data"
    /\ QueryFailed(attempts[1])
    /\ attempts[1].outcome.cls = "GitHubAPIError"
    /\ reply = Some(Reply("error", "Failed to fetch contributions"))

\* C17: aggregating for a user without any stored report hands back None and
\* raises nothing, and the all-time command then answers with the "no data"
\* diagnostic.
C17_EmptyAggregateIsNone ==
    /\ (aggPc = "done" /\ Stored(aggUser) = {}) => alltime_stats = Some(ReturnNone)
    /\ (command = "alltime" /\ botPc = "done" /\ Stored(argUser) = {}) =>
          reply = Some(Reply("no_data", "No data could be retrieved"))

C17_Witness ==
    /\ command = "alltime"
    /\ botPc = "done"
    /\ argUser = "octocat"
    /\ Stored("octocat") = {}
    /\ Len(attempts) = CurrentYear - FirstYear + 1
    /\ alltime_stats = Some(ReturnNone)
    /\ reply = Some(Reply("no_data", "No data could be retrieved"))

\* the years of [2008, current year] without a stored report, ascending
MissingAscending(username) ==
    SelectSeq([i \in 1..(CurrentYear - FirstYear + 1) |-> FirstYear + i - 1],
              LAMBDA y : y \notin Stored(username))

\* C18: the backfill attempts every missing year of [2008, current year] once,
\* in ascending order, goes on after a year that fails, and reads the
\* aggregate only after the last attempt.
C18_BackfillAttemptsEveryYear ==
    (command = "alltime") =>
        /\ Len(attempts) <= Len(MissingAscending(argUser))
        /\ \A i \in 1..Len(attempts) : attempts[i].year = MissingAscending(argUser)[i]
        /\ (botPc \in {"aggregate", "aggregating", "done"} \/ aggPc # "idle") =>
              Len(attempts) = Len(MissingAscending(argUser))

C18_Witness ==
    /\ command = "alltime"
    /\ botPc = "done"
    /\ Stored(argUser) = {FirstYear + 1}
    /\ Len(attempts) = 2
    /\ attempts[1].year = FirstYear
    /\ attempts[1].outcome.kind = "error"
    /\ attempts[2].year = FirstYear + 2
    /\ alltime_stats # None

(***************************************************************************)
(* Properties of GitHubAnalyzer.get_user_contributions                     *)
(***************************************************************************)
\* the records the lines of the call are summed over
SummedRecords ==
    IF use_commit_data /\ anCommits # <<>> THEN anCommits
    ELSE SelectSeq(all_prs, LAMBDA pr : YearPrefix[pr.createdAt] = anYear)

\* the total of a field over the records, a null counting 0
RECURSIVE NullAsZero(_, _)
NullAsZero(list, field) ==
    IF list = <<>> THEN 0
    ELSE (IF Head(list)[field] = None THEN 0 ELSE Head(list)[field][1])
           + NullAsZero(Tail(list), field)

\* the call got its records: no fetch raised
LinesSummed ==
    /\ anPc = "done"
    /\ anRaisedAt \notin {"fetch_year_contributions", "fetch_all_pull_requests",
                           "progress_callback"}

\* C12: in get_user_contributions a record whose additions or deletions is
\* null counts 0 for that field, its other field is still counted, and the
\* summing does not raise.
C12_NullCountsZero ==
    LinesSummed =>
        /\ anRaisedAt # "sum"
        /\ anAdded = NullAsZero(SummedRecords, "additions")
        /\ anDeleted = NullAsZero(SummedRecords, "deletions")

(***************************************************************************)
(* Properties of the sequence of calls                                     *)
(***************************************************************************)
\* the status after the first k answers of the request, on a client that
\* starts without one
StatusAfter ==
    LET after[k \in 0..Len(sqResponses)] ==
            IF k = 0 THEN None
            ELSE IF sqResponses[k] = None THEN after[k - 1]
            ELSE RateLimitAfter(impl, after[k - 1], sqResponses[k][1].headers)
    IN  after

\* C20: at most one call is in flight; a call is issued only when every
\* earlier call has been answered, and the status it reads before its POST
\* is the one all the earlier answers left.
C20_OneCallInFlight ==
    /\ inflight <= 1
    /\ Len(sqReads) = Len(sqResponses) + inflight
    /\ \A n \in 1..Len(sqReads) :
          /\ n - 1 <= Len(sqResponses)
          /\ sqReads[n] = StatusAfter[n - 1]

C20_Witness ==
    /\ cmPc = "done"
    /\ inflight = 0
    /\ Len(cmWalked) = 2
    /\ Len(sqReads) >= 4
    /\ sqReads[2] = None
    /\ sqReads[3] # None
    /\ sqResponses[2] # None
    /\ sqResponses[3] = None

\* C24: with a page cap M the pager issues at most M requests and yields at
\* most M batches, whatever the pages report; without a cap, a request is
\* issued after a page only if that page reported hasNextPage = true.
C24_PagerFinite ==
    /\ (max_pages # None) =>
          /\ Len(pgRequests) <= max_pages[1]
          /\ Len(pgBatches) <= max_pages[1]
    /\ (max_pages = None) =>
          \A k \in 1..Len(pgBatches) :
              k < Len(pgRequests) => pgBatches[k].hasNextPage

C24_Witness ==
    /\ pgPc = "done"
    /\ ~pgNested
    /\ max_pages = Some(MaxPageCap)
    /\ Len(pgPages) > MaxPageCap
    /\ \A k \in 1..Len(pgPages) : pgPages[k].hasNextPage
    /\ Len(pgRequests) = MaxPageCap
    /\ Len(pgBatches) = MaxPageCap

\* the page the server answers a request with, by the cursor the request carries
PageAnswering(sent) == IF sent = None THEN 1 ELSE sent[1] + 1

\* the cursors a walk sent, in order, follow the server's chain of pages: the
\* first is null, each later one is the endCursor of the page that answered the
\* request before it, none is sent twice, and every page that was followed by
\* another request reported hasNextPage = true
InCursorOrder(sentCursors, pages) ==
    /\ \A k \in 1..Len(sentCursors) :
          /\ k = 1 => sentCursors[k] = None
          /\ k > 1 => sentCursors[k] =
                WalkPageInfo(pages, PageAnswering(sentCursors[k - 1])).endCursor
          /\ PageAnswering(sentCursors[k]) = k
          /\ k < Len(sentCursors) =>
                WalkPageInfo(pages, PageAnswering(sentCursors[k])).hasNextPage
    /\ \A j, k \in 1..Len(sentCursors) : j # k => sentCursors[j] # sentCursors[k]

\* a walk that ended without an error ended with a page whose hasNextPage is false
EndedAtLastPage(sentCursors, pages) ==
    /\ sentCursors # <<>>
    /\ ~WalkPageInfo(pages, PageAnswering(sentCursors[Len(sentCursors)])).hasNextPage

\* the cursors sent for the history of repository i
HistoryCursors(i) ==
    LET mine == SelectSeq(cmRequests, LAMBDA q : q[1] = i)
    IN  [k \in 1..Len(mine) |-> mine[k][2]]

\* C25: the pull-request walk and each repository's commit-history walk request
\* their pages in cursor order: null first, then the endCursor of the page just
\* received, no page twice or skipped, ending with the first page whose
\* hasNextPage is false.
C25_PagesInCursorOrder ==
    /\ InCursorOrder(prRequests, prPages)
    /\ (lnPc = "done" /\ ~prRaised) => EndedAtLastPage(prRequests, prPages)
    /\ \A i \in 1..Len(repos) :
          /\ InCursorOrder(HistoryCursors(i), repos[i])
          /\ (cmPc = "done" /\ i \notin cmFailed) =>
                EndedAtLastPage(HistoryCursors(i), repos[i])

C25_Witness ==
    /\ cmPc = "done"
    /\ lnPc = "done"
    /\ ~prRaised
    /\ cmFailed = {}
    /\ prRequests = <<None, Some(1)>>
    /\ Len(repos) = 2
    /\ HistoryCursors(1) = <<None, Some(1)>>
    /\ HistoryCursors(2) = <<None, Some(1)>>

\* C21: once cancellation is requested the backfill loop returns without
\* starting the next year: no attempt is made after the request.
C21_CancelStopsBackfill ==
    cancelled_at # None => Len(attempts) = cancelled_at[1]

\* C22: a failure of the progress sink's report never aborts the fetch: no call
\* of get_user_contributions ends with the exception of its progress callback.
C22_SinkFailureHarmless ==
    anPc = "done" => anRaisedAt # "progress_callback"

\* C29: when its fetches return, get_user_contributions returns a snapshot
\* (it does not raise) whose lines are the sums over the fetched commits if the
\* commit fetch succeeded with at least one commit, and otherwise the sums over
\* the pull requests created in the requested year.
C29_CommitSumsElsePrSums ==
    LinesSummed =>
        /\ anResult # None
        /\ anResult[1].kind = "data"
        /\ anResult[1].data[1].lines_added = NullAsZero(SummedRecords, "additions")
        /\ anResult[1].data[1].lines_deleted = NullAsZero(SummedRecords, "deletions")

(***************************************************************************)
(* Properties of ProgressiveGitHubSource.contributions                     *)
(***************************************************************************)
\* the call has ended, the wrapped source having returned its base snapshot
ProgressiveEnded ==
    /\ progPc \in {"done", "raised"}
    /\ base_stats # None

\* C26: the snapshot handed back carries a method tag naming the strategy whose
\* sums are in its line fields: "pull_requests" when the pull-request sums were
\* used, "none" or "error" when the calculation produced no data.
C26_SnapshotTagged ==
    ProgressiveEnded =>
        /\ stats # None
        /\ IF prRaised
             THEN stats[1].lines_calculation_method \in {"none", "error"}
             ELSE stats[1].lines_calculation_method = "pull_requests"

\* the fields ProgressiveGitHubSource.contributions is to hand on as they are
HandedOn == (ContributionStatsRequired \cup {"created_at"}) \ {"lines_added", "lines_deleted"}

\* C27: the snapshot handed back equals the base snapshot of the wrapped source
\* in every field but lines_added and lines_deleted, and both are 0 when the
\* line calculation failed.
C27_OnlyLinesDiffer ==
    ProgressiveEnded =>
        /\ stats # None
        /\ \A k \in HandedOn : stats[1][k] = base_stats[1][k]
        /\ prRaised => (stats[1].lines_added = 0 /\ stats[1].lines_deleted = 0)

\* C30: the second progress message announces the commit fetch, and the lines
\* are taken from the commits of the wrapped source's commits(), which is
\* therefore called.
C30_LinesFromCommits ==
    ProgressiveEnded =>
        /\ Len(progress) >= 2
        /\ progress[1] = "Fetching contribution data"
        /\ progress[2] = "Fetching commit data"
        /\ cmPc # "idle"

(***************************************************************************)
(* Properties of the language statistics                                   *)
(***************************************************************************)
\* the primary languages of the repositories of the breakdown
PrimaryLanguages ==
    { breakdown[i].primaryLanguage[1] :
        i \in { j \in 1..Len(breakdown) : breakdown[j].primaryLanguage # None } }

\* the total of the commit-contribution counts of the repositories of a language
RECURSIVE CountOf(_, _)
CountOf(list, lang) ==
    IF list = <<>> THEN 0
    ELSE (IF Head(list).primaryLanguage = Some(lang) THEN Head(list).totalCount ELSE 0)
           + CountOf(Tail(list), lang)

\* C28: the snapshot fetched by contributions() has a languages mapping whose
\* keys are the primary languages of the repositories of the breakdown, each
\* mapped to the sum of the counts of the repositories of that language.
C28_LanguagesGrouped ==
    (fetchResult # None /\ fetchResult[1].answered) =>
        /\ fetchResult[1].outcome.kind = "data"
        /\ DOMAIN fetchResult[1].outcome.data[1].languages = PrimaryLanguages
        /\ \A l \in PrimaryLanguages :
              fetchResult[1].outcome.data[1].languages[l] = CountOf(breakdown, l)

(***************************************************************************)
(* Properties of analyze_command                                           *)
(***************************************************************************)
\* the store() call of the command returned, and the report holds its argument
StoredBeforehand ==
    /\ storeCalls # <<>>
    /\ storeCalls[Len(storeCalls)].arg = stats[1]
    /\ storeCalls[Len(storeCalls)].outcome.kind = "data"

C38_PagerAdvances ==
    \A k \in 1..Len(pgBatches) :
        (k < Len(pgRequests) /\ pgBatches[k].hasNextPage) =>
            pgRequests[k + 1] # pgRequests[k]

\* C33: when the request of any pull-request page fails, the primary strategy
\* returns 0 lines added, 0 lines deleted and 0 pull requests, whatever the
\* earlier pages added up to; a result with sums covers every page.
C33_AllOrNothing ==
    (lnPc = "done" /\ line_stats # None) =>
        /\ prRaised => line_stats = Some(LineStats(0, 0, 0))
        /\ (line_stats[1].lines_added > 0 \/ line_stats[1].lines_deleted > 0
              \/ line_stats[1].pr_count > 0)
             => (~prRaised /\ Len(prRequests) = Len(prPages))

\* a later page failed after the first page had added to the sums
C33_Witness ==
    /\ lnPc = "done"
    /\ prRaised
    /\ Len(prRequests) = 2
    /\ total_added > 0
    /\ pr_count > 0
    /\ line_stats = Some(LineStats(0, 0, 0))

\* C32: analyze_command given a year below 2008 or above the current year
\* answers 'Invalid year', issues no request to GitHub and writes neither a
\* report nor a user association.
C32_InvalidYearTouchesNothing ==
    (command = "analyze" /\ (lnYear < 2008 \/ lnYear > CurrentYear)) =>
        /\ botPc = "done"
        /\ reply = Some(Reply("invalid_year", "Invalid year!"))
        /\ session = "none"
        /\ prRequests = <<>>
        /\ progPc = "idle"
        /\ progress = <<>>
        /\ storeCalls = <<>>
        /\ reports = <<>>
        /\ telegram_users = {}

C32_Witness ==
    /\ command = "analyze"
    /\ lnYear = CurrentYear + 1
    /\ botPc = "done"
    /\ reply = Some(Reply("invalid_year", "Invalid year!"))

(***************************************************************************)
(* Properties of the all-time backfill                                     *)
(***************************************************************************)
\* a step of the all-time command: the reports the user had before it are
\* there after it, unchanged, and a year it attempts had no report
BackfillSparesStored ==
    command' = "alltime" =>
        /\ \A k \in DOMAIN reports :
              k[1] = argUser' => (k \in DOMAIN reports' /\ reports'[k] = reports[k])
        /\ Len(attempts') > Len(attempts) =>
              <<argUser', attempts'[Len(attempts')].year>> \notin DOMAIN reports

\* C31: the all-time backfill neither fetches nor overwrites the report of a
\* year that was stored when the command started.
C31_StoredYearsUntouched == [][BackfillSparesStored]_vars

\* the backfill ended, the user having had a report before it and years missing
C31_Witness ==
    /\ command = "alltime"
    /\ botPc = "done"
    /\ existing_years # <<>>
    /\ Len(attempts) = Len(missing_years)
    /\ attempts # <<>>

\* C36: an all-time command that finds a report for every year from 2008 to
\* the current year, as a complete run leaves them, issues no request to
\* GitHub, stores nothing and returns the aggregate of the stored reports, the
\* one the run before it returned.
C36_CompleteRunIdempotent ==
    (command = "alltime" /\ botPc = "done" /\ existing_years = all_years) =>
        /\ attempts = <<>>
        /\ storeCalls = <<>>
        /\ reply = Some(Reply("report", "alltime"))

\* aggregated() of PostgreSQLReportStorage has answered for a user with reports
\* while store() was called for the same user
AggregatedAmidStores ==
    /\ Aggregated
    /\ stImpl = "PostgreSQLReportStorage"
    /\ \E i \in 1..Len(storeCalls) : storeCalls[i].arg.username = aggUser

\* C35: the aggregate handed back amid stores for the same user is that of one
\* state of the table: its point-in-time fields are those of the report of its
\* last_year, and its histogram sums the reports counted in its total_years.
C35_AggregateOfOneState ==
    AggregatedAmidStores =>
        /\ alltime_stats[1].kind = "data"
        /\ <<aggUser, alltime_stats[1].data[1].last_year>> \in DOMAIN reports
        /\ \A c \in SnapshotColumns :
              alltime_stats[1].data[1][c] =
                  reports[<<aggUser, alltime_stats[1].data[1].last_year>>][c]
        /\ alltime_stats[1].data[1].total_years = Cardinality(Stored(aggUser))
        /\ \A l \in DOMAIN alltime_stats[1].data[1].languages :
              alltime_stats[1].data[1].languages[l] = LanguageTotal(aggUser, l)

\* every operation that entered the client has left it
AllLeft == \A o \in Ops : opPc[o] = "left"

\* C34: when operations of one source interleave on the shared client, no
\* query is issued on a session that an exit has closed, and once every
\* operation has left every session that was opened is closed.
C34_SharedClientSafe ==
    /\ \A i \in 1..Len(opIssued) : ~opIssued[i].closed
    /\ AllLeft => \A s \in 1..sessions_opened : s \in sessions_closed

\* get_user_contributions went through its pull-request fallback with a
\* db_manager at hand and summed the lines of the list it got
PrFallbackWithCache ==
    /\ anPc = "done"
    /\ anDb
    /\ anCommits = <<>>
    /\ anRaisedAt \in {"", "ContributionStats", "sum"}

\* how many times pr occurs in list
Occurrences(list, pr) == Cardinality({ i \in 1..Len(list) : list[i] = pr })

\* C37: in the pull-request fallback with a cache, the totals summed are those
\* of the user's current pull requests on GitHub, and the cache read back
\* holds each pull request as many times as that list does.
C37_CacheMatchesGitHub ==
    PrFallbackWithCache =>
        /\ SumPrs(all_prs, anYear) = SumPrs(github_prs, anYear)
        /\ \A pr \in PrNodeSet :
              Occurrences(get_cached_prs(pr_cache), pr) = Occurrences(github_prs, pr)

====
